---- MODULE Spec2Model ----
(***************************************************************************)
(* contribute-now: the branch synchronisation and rebase-strategy engine.  *)
(*                                                                         *)
(* A repository is modelled by its refs.  A commit is the sequence of the  *)
(* patches on its (linear) history, so that a commit is an ancestor of     *)
(* another iff it is a prefix of it, and the merge base of two commits is  *)
(* their longest common prefix.  A ref name is the sequence of its         *)
(* "/"-separated segments: "origin/feature/a" is <<"origin","feature","a">>*)
(* The empty sequence stands for null / "no such ref" / "no commit".       *)
(***************************************************************************)
EXTENDS Integers, Sequences, FiniteSets, TLC

VARIABLES
    cmd,        \* the command that is running
    pc,         \* its position
    exitCode,   \* -1 while running, else the process exit code
    config,     \* the ContributeConfig read by readConfig()
    L,          \* the local variables of the command
    log,        \* the git commands issued so far, in order
    out,        \* what was reported to the user
    git,        \* the local repository: head, branches, tracking, remoteRefs,
                \* dirty (uncommitted changes), files (markers in the git dir),
                \* changed (paths `git status` lists), staged (paths in the
                \* index), made (the commits created by `git commit`)
    server,     \* the refs as they are on the remotes
    netOk,      \* the remotes can be reached
    shallow,    \* the repository is a shallow clone
    gitDirOk,   \* `git rev-parse --git-dir` succeeds
    gh,         \* "missing" | "unauth" | "ok": the GitHub CLI
    mergedPRs   \* branches whose pull request is merged

vars == <<cmd, pc, exitCode, config, L, log, out, git, server, netOk,
          shallow, gitDirOk, gh, mergedPRs>>

env  == <<config, server, netOk, shallow, gitDirOk, gh, mergedPRs>>

----------------------------------------------------------------------------
(* Bounds *)

\* number of commits a feature branch may carry that were never pushed
MaxAhead == 1
\* number of commits the remote base branch may have beyond the root
MaxBase == 1
\* number of groups in an AI response
MaxGroups == 2
\* number of times the messages are regenerated in one run
MaxRegen == 1

----------------------------------------------------------------------------
(* Names *)

None == <<>>

Main  == <<"main">>
Dev   == <<"dev">>
FeatA == <<"feature", "a">>
FeatB == <<"feature", "b">>
NewN  == <<"feature", "n">>
Rel   == <<"release", "1">>

LocalNames  == {Main, Dev, FeatA, FeatB, NewN, Rel}
RemoteNames == {<<r>> \o b : r \in {"origin", "upstream"}, b \in {Main, Dev, FeatA, FeatB}}

\* `${remote}/${branch}`
RemoteRef(remote, branch) == <<remote>> \o branch

\* the order in which `git branch` lists the local branches
BranchOrder == <<Dev, FeatA, FeatB, NewN, Main, Rel>>

----------------------------------------------------------------------------
(* Commits *)

RECURSIVE LCP(_, _)
LCP(a, b) ==
    IF a = <<>> \/ b = <<>> THEN <<>>
    ELSE IF Head(a) # Head(b) THEN <<>>
    ELSE <<Head(a)>> \o LCP(Tail(a), Tail(b))

IsPrefix(a, b) == Len(a) <= Len(b) /\ SubSeq(b, 1, Len(a)) = a

\* commit a is reachable from commit b
Reachable(a, b) == a # None /\ IsPrefix(a, b)

\* k commits on the remote base branch after the root commit 0
BaseHist(k) == <<0>> \o [i \in 1..k |-> i]

\* k never-pushed commits (patches 21, 22, ...) on top of c
WithLocal(c, k) == c \o [i \in 1..k |-> 20 + i]

\* the patches of h that come after its common history with b
After(h, b) == SubSeq(h, Len(LCP(h, b)) + 1, Len(h))

RECURSIVE DropKnown(_, _)
DropKnown(s, known) ==
    IF s = <<>> THEN <<>>
    ELSE IF \E i \in 1..Len(known) : known[i] = Head(s)
         THEN DropKnown(Tail(s), known)
         ELSE <<Head(s)>> \o DropKnown(Tail(s), known)

----------------------------------------------------------------------------
(* Read-only git queries (utils/git.ts), on a repository g *)

\* what git resolves a ref name to: HEAD, a local branch, a remote-tracking ref
Resolve(g, name) ==
    IF name = <<"HEAD">> THEN (IF g.head \in LocalNames THEN g.branches[g.head] ELSE None)
    ELSE IF name \in LocalNames THEN g.branches[name]
    ELSE IF name \in RemoteNames THEN g.remoteRefs[name]
    ELSE None

getCurrentBranch(g) ==
    IF g.head \in LocalNames /\ g.branches[g.head] # None THEN g.head ELSE None

hasUncommittedChanges(g) == g.dirty

branchExists(g, b) == Resolve(g, b) # None

refExists(g, ref) == Resolve(g, ref) # None

\* git rev-list --count upstream..branch ; -1 stands for a non-zero exit
RevListCount(g, upstream, branch) ==
    IF Resolve(g, upstream) = None \/ Resolve(g, branch) = None THEN -1
    ELSE Len(Resolve(g, branch)) - Len(LCP(Resolve(g, branch), Resolve(g, upstream)))

countCommitsAhead(g, branch, upstream) ==
    IF RevListCount(g, upstream, branch) < 0 THEN 0
    ELSE RevListCount(g, upstream, branch)

getUpstreamRef(g) == IF g.head \in LocalNames THEN g.tracking[g.head] ELSE None

\* git merge-base ref1 ref2 : null when a ref does not resolve or there is
\* no common ancestor
getMergeBase(g, ref1, ref2) ==
    IF Resolve(g, ref1) = None \/ Resolve(g, ref2) = None THEN None
    ELSE LCP(Resolve(g, ref1), Resolve(g, ref2))

getCommitHash(g, ref) == Resolve(g, ref)

hasLocalWork(g, remote, branch) ==
    [uncommitted     |-> hasUncommittedChanges(g),
     unpushedCommits |-> IF RevListCount(g, RemoteRef(remote, branch), branch) < 0 THEN 0
                         ELSE RevListCount(g, RemoteRef(remote, branch), branch)]

\* git branch --merged base : the local branches reachable from base
getMergedBranches(g, base) ==
    IF Resolve(g, base) = None THEN <<>>
    ELSE SelectSeq(BranchOrder,
                   LAMBDA b : Reachable(g.branches[b], Resolve(g, base)))

\* git branch -vv : the local branches whose upstream is marked [gone]
getGoneBranches(g) ==
    SelectSeq(BranchOrder,
              LAMBDA b : /\ g.branches[b] # None
                         /\ g.tracking[b] # None
                         /\ Resolve(g, g.tracking[b]) = None)

----------------------------------------------------------------------------
(* Repository-changing git commands (utils/git.ts).  Each gives the set of  *)
(* its possible outcomes [ok, g]: ok is "exit code 0", g the repository     *)
(* afterwards.                                                              *)

InProgressFiles == {"rebase-merge", "rebase-apply", "MERGE_HEAD", "CHERRY_PICK_HEAD", "BISECT_LOG"}
MarkerFiles == {"index.lock"} \cup InProgressFiles

Fail(g) == [ok |-> FALSE, g |-> g]
Done(g) == [ok |-> TRUE, g |-> g]

RemoteOf(ref) == Head(ref)

\* git fetch <remote> : the remote's refs are copied; nothing is pruned
fetchRemote(g, remote) ==
    IF ~netOk THEN {Fail(g)}
    ELSE {Done([g EXCEPT !.remoteRefs =
                   [r \in RemoteNames |->
                       IF RemoteOf(r) = remote /\ server[r] # None
                       THEN server[r] ELSE g.remoteRefs[r]]])}

\* git fetch --all --quiet
fetchAll(g) ==
    IF ~netOk THEN {Fail(g)}
    ELSE {Done([g EXCEPT !.remoteRefs =
                   [r \in RemoteNames |->
                       IF server[r] # None THEN server[r] ELSE g.remoteRefs[r]]])}

\* git remote prune <remote> : tracking refs deleted on the remote go away
pruneRemote(g, remote) ==
    IF ~netOk THEN {Fail(g)}
    ELSE {Done([g EXCEPT !.remoteRefs =
                   [r \in RemoteNames |->
                       IF RemoteOf(r) = remote /\ server[r] = None
                       THEN None ELSE g.remoteRefs[r]]])}

\* git checkout <branch> : with uncommitted changes, or with the unmerged
\* index of a stopped rebase or merge, it may refuse
checkoutBranch(g, branch) ==
    IF branch \notin LocalNames THEN {Fail(g)}
    ELSE IF g.branches[branch] = None THEN {Fail(g)}
    ELSE IF g.files \cap InProgressFiles # {}
         THEN {Fail(g), Done([g EXCEPT !.head = branch])}
    ELSE IF g.dirty /\ g.branches[branch] # Resolve(g, <<"HEAD">>)
         THEN {Fail(g), Done([g EXCEPT !.head = branch])}
         ELSE {Done([g EXCEPT !.head = branch])}

\* git checkout -b <branch> [from] : commits and working tree are carried
createBranch(g, branch, from) ==
    IF branch \notin LocalNames THEN {Fail(g)}
    ELSE IF g.branches[branch] # None THEN {Fail(g)}
    ELSE IF Resolve(g, from) = None THEN {Fail(g)}
    ELSE {Done([g EXCEPT !.head = branch,
                         !.branches[branch] = Resolve(g, from),
                         !.tracking[branch] =
                             IF from \in RemoteNames THEN from ELSE None])}

\* git reset --hard <ref> : it needs the index, so a lock file stops it
resetHard(g, ref) ==
    IF Resolve(g, ref) = None \/ getCurrentBranch(g) = None THEN {Fail(g)}
    ELSE IF "index.lock" \in g.files THEN {Fail(g)}
    ELSE {Done([g EXCEPT !.branches[g.head] = Resolve(g, ref), !.dirty = FALSE])}

\* git branch -f <branch> <target>, or reset --hard when on <branch>
updateLocalBranch(g, branch, target) ==
    IF getCurrentBranch(g) = branch THEN resetHard(g, target)
    ELSE IF Resolve(g, target) = None \/ branch \notin LocalNames THEN {Fail(g)}
    ELSE {Done([g EXCEPT !.branches[branch] = Resolve(g, target)])}

\* git branch -m <old> <new> : the upstream configuration moves along
renameBranch(g, oldName, newName) ==
    IF oldName \notin LocalNames \/ newName \notin LocalNames THEN {Fail(g)}
    ELSE IF g.branches[oldName] = None \/ g.branches[newName] # None THEN {Fail(g)}
    ELSE {Done([g EXCEPT
                 !.branches = [g.branches EXCEPT ![newName] = g.branches[oldName],
                                                  ![oldName] = None],
                 !.tracking = [g.tracking EXCEPT ![newName] = g.tracking[oldName],
                                                  ![oldName] = None],
                 !.head = IF g.head = oldName THEN newName ELSE g.head])}

\* git branch --unset-upstream
unsetUpstream(g) ==
    IF getCurrentBranch(g) = None THEN {Fail(g)}
    ELSE IF g.tracking[g.head] = None THEN {Fail(g)}
    ELSE {Done([g EXCEPT !.tracking[g.head] = None])}

\* what `git branch -d` wants the branch to be merged into
MergeTarget(g, branch) ==
    IF g.tracking[branch] # None /\ Resolve(g, g.tracking[branch]) # None
    THEN Resolve(g, g.tracking[branch])
    ELSE Resolve(g, <<"HEAD">>)

Removed(g, branch) ==
    [g EXCEPT !.branches[branch] = None, !.tracking[branch] = None]

\* git branch -d <branch>
deleteBranch(g, branch) ==
    IF branch \notin LocalNames THEN {Fail(g)}
    ELSE IF g.branches[branch] = None \/ g.head = branch THEN {Fail(g)}
    ELSE IF ~Reachable(g.branches[branch], MergeTarget(g, branch)) THEN {Fail(g)}
    ELSE {Done(Removed(g, branch))}

\* git branch -D <branch>
forceDeleteBranch(g, branch) ==
    IF branch \notin LocalNames THEN {Fail(g)}
    ELSE IF g.branches[branch] = None \/ g.head = branch THEN {Fail(g)}
    ELSE {Done(Removed(g, branch))}

\* replaying `patches` onto commit `onto` : nothing to replay cannot conflict,
\* otherwise the rebase either lands or stops on a conflict
Replay(g, onto, patches) ==
    IF getCurrentBranch(g) = None \/ onto = None THEN {Fail(g)}
    ELSE IF g.dirty \/ g.files \cap InProgressFiles # {} THEN {Fail(g)}
    ELSE IF patches = <<>>
         THEN {Done([g EXCEPT !.branches[g.head] = onto])}
         ELSE {Done([g EXCEPT !.branches[g.head] = onto \o patches]),
               [ok |-> FALSE, g |-> [g EXCEPT !.files = @ \cup {"rebase-merge"}]]}

\* git rebase <branch> : the commits of <branch>..HEAD are replayed onto it
rebase(g, branch) ==
    IF Resolve(g, branch) = None THEN {Fail(g)}
    ELSE Replay(g, Resolve(g, branch),
                DropKnown(After(Resolve(g, <<"HEAD">>), Resolve(g, branch)),
                          After(Resolve(g, branch), Resolve(g, <<"HEAD">>))))

\* git rebase --onto <newBase> <oldBase> : only oldBase..HEAD is replayed.
\* oldBase is a commit (a hash, or what a ref name resolved to)
rebaseOnto(g, newBase, oldBase) ==
    IF Resolve(g, newBase) = None \/ oldBase = None THEN {Fail(g)}
    ELSE Replay(g, Resolve(g, newBase),
                DropKnown(After(Resolve(g, <<"HEAD">>), oldBase),
                          After(oldBase, Resolve(g, <<"HEAD">>))))

----------------------------------------------------------------------------
(* WorkflowResolver (utils/workflow.ts) *)

hasDevBranch(workflow) == workflow = "clean-flow" \/ workflow = "git-flow"

\* a variant without the `?? 'dev'` default
getBaseBranch_noDefault(c) ==
    IF c.workflow = "github-flow" THEN c.mainBranch ELSE c.devBranch

getBaseBranch(c) ==
    IF c.workflow = "github-flow" THEN c.mainBranch
    ELSE IF c.devBranch # None THEN c.devBranch ELSE Dev

\* a variant that always takes the origin remote
getSyncSource_originOnly(c) ==
    LET devBranch == IF c.devBranch # None THEN c.devBranch ELSE Dev
        branch    == IF c.workflow = "github-flow" THEN c.mainBranch ELSE devBranch
    IN  [remote |-> c.origin, ref |-> RemoteRef(c.origin, branch), strategy |-> "pull"]

getSyncSource(c) ==
    LET devBranch == IF c.devBranch # None THEN c.devBranch ELSE Dev
        branch    == IF c.workflow = "github-flow" THEN c.mainBranch ELSE devBranch
        remote    == IF c.role = "contributor" THEN c.upstream ELSE c.origin
    IN  [remote |-> remote, ref |-> RemoteRef(remote, branch), strategy |-> "pull"]

getProtectedBranches(c) ==
    IF hasDevBranch(c.workflow) /\ c.devBranch # None
    THEN <<c.mainBranch, c.devBranch>>
    ELSE <<c.mainBranch>>

Includes(list, x) == \E i \in 1..Len(list) : list[i] = x

\* the prefixes 'release/' and 'hotfix/', as first segments
getProtectedPrefixes(c) ==
    IF c.workflow = "git-flow" THEN <<"release", "hotfix">> ELSE <<>>

\* a variant that knows the exact names only
isBranchProtected_exactOnly(branch, c) ==
    Includes(getProtectedBranches(c), branch)

\* branch.startsWith(prefix) for a prefix that ends with the slash
isBranchProtected(branch, c) ==
    \/ Includes(getProtectedBranches(c), branch)
    \/ \E i \in 1..Len(getProtectedPrefixes(c)) :
          Len(branch) > 1 /\ branch[1] = getProtectedPrefixes(c)[i]

----------------------------------------------------------------------------
(* Branch names (utils/branch.ts) *)

RESERVED_GIT_NAMES ==
    {<<"HEAD">>, <<"FETCH_HEAD">>, <<"ORIG_HEAD">>, <<"MERGE_HEAD">>,
     <<"CHERRY_PICK_HEAD">>, <<"REBASE_HEAD">>, <<"BISECT_HEAD">>}

\* on segment sequences: not empty, not reserved, no empty segment (a leading,
\* trailing or doubled slash)
isValidBranchName(name) ==
    /\ name # None
    /\ name \notin RESERVED_GIT_NAMES
    /\ \A i \in 1..Len(name) : name[i] # ""

\* the names a user may end up with at a "new branch name" prompt
NameInputs == {NewN, FeatB, <<"HEAD">>}

----------------------------------------------------------------------------
(* GitHub CLI (utils/gh.ts) *)

checkGhInstalled == gh # "missing"
checkGhAuth == gh = "ok"

\* a variant that knows the merged pull requests without the tool
getMergedPRForBranch_noTool(branch) == branch \in mergedPRs

\* gh pr list --head <branch> --state merged : null on any non-zero exit
getMergedPRForBranch(branch) == gh = "ok" /\ branch \in mergedPRs

----------------------------------------------------------------------------
(* GitStateInspector (utils/git.ts) *)

getGitDir == gitDirOk

checkGitState(g) ==
    IF ~getGitDir THEN [lockFile |-> FALSE, inProgressOp |-> "", gitDir |-> FALSE]
    ELSE [lockFile |-> "index.lock" \in g.files,
          inProgressOp |->
              IF "rebase-merge" \in g.files \/ "rebase-apply" \in g.files THEN "rebase"
              ELSE IF "MERGE_HEAD" \in g.files THEN "merge"
              ELSE IF "CHERRY_PICK_HEAD" \in g.files THEN "cherry-pick"
              ELSE IF "BISECT_LOG" \in g.files THEN "bisect"
              ELSE "",
          gitDir |-> TRUE]

isShallowRepo == shallow

----------------------------------------------------------------------------
(* RebaseStrategyResolver: determineRebaseStrategy (utils/git.ts) *)

\* a variant that keeps only what follows the last slash
upstreamBranchName_lastSegment(upstreamRef) == <<upstreamRef[Len(upstreamRef)]>>

\* "origin/feature/xyz" -> "feature/xyz" : everything after the first slash
upstreamBranchName(upstreamRef) ==
    IF Len(upstreamRef) > 1 THEN Tail(upstreamRef) ELSE upstreamRef

Plain == [strategy |-> "plain", ontoOldBase |-> None]
Onto(oldBase) == [strategy |-> "onto", ontoOldBase |-> oldBase]

\* a variant that transplants from the fork point with the sync ref
decideFromForks_syncBase(forkFromUpstream, forkFromSync) ==
    IF forkFromUpstream # None /\ forkFromSync # None /\ forkFromUpstream = forkFromSync
    THEN Plain
    ELSE IF forkFromUpstream # None THEN Onto(forkFromSync)
    ELSE Plain

\* a variant without the comparison of the two fork points
decideFromForks_noEqualCheck(forkFromUpstream, forkFromSync) ==
    IF forkFromUpstream # None THEN Onto(forkFromUpstream) ELSE Plain

\* the decision once both merge bases are known
decideFromForks(forkFromUpstream, forkFromSync) ==
    IF forkFromUpstream # None /\ forkFromSync # None /\ forkFromUpstream = forkFromSync
    THEN Plain
    ELSE IF forkFromUpstream # None THEN Onto(forkFromUpstream)
    ELSE Plain

\* git rev-list --left-right --count left...right : the two counts it prints,
\* first the commits only on the left side, then those only on the right side;
\* a non-zero exit when a side does not resolve
RevListLeftRight(g, left, right) ==
    IF Resolve(g, left) = None \/ Resolve(g, right) = None
    THEN [exitCode |-> 128, parts |-> <<>>]
    ELSE [exitCode |-> 0,
          parts    |-> <<Len(After(Resolve(g, left), Resolve(g, right))),
                         Len(After(Resolve(g, right), Resolve(g, left)))>>]

\* a variant that reads the two counts the other way round
getDivergence_swapped(g, branch, base) ==
    LET r == RevListLeftRight(g, base, branch)
    IN  IF r.exitCode # 0 THEN [ahead |-> 0, behind |-> 0]
        ELSE [behind |-> r.parts[2], ahead |-> r.parts[1]]

\* a variant that reports a failed query as one commit behind
getDivergence_failBehind(g, branch, base) ==
    LET r == RevListLeftRight(g, base, branch)
    IN  IF r.exitCode # 0 THEN [ahead |-> 0, behind |-> 1]
        ELSE [behind |-> r.parts[1], ahead |-> r.parts[2]]

\* rev-list --left-right --count base...branch : {0, 0} on a non-zero exit
getDivergence(g, branch, base) ==
    LET r == RevListLeftRight(g, base, branch)
    IN  IF r.exitCode # 0 THEN [ahead |-> 0, behind |-> 0]
        ELSE [behind |-> r.parts[1], ahead |-> r.parts[2]]

\* git pull --ff-only <remote> <branch> : only a fast-forward is accepted;
\* with nothing new on the remote it is "Already up to date"
pullFastForwardOnly(g, remote, branch) ==
    LET theirs == server[RemoteRef(remote, branch)]
        ours   == Resolve(g, <<"HEAD">>)
    IN  IF ~netOk \/ theirs = None \/ ours = None THEN {Fail(g)}
        ELSE IF IsPrefix(ours, theirs)
             THEN {Done([g EXCEPT !.branches[g.head] = theirs,
                                  !.remoteRefs[RemoteRef(remote, branch)] = theirs])}
        ELSE IF IsPrefix(theirs, ours)
             THEN {Done([g EXCEPT !.remoteRefs[RemoteRef(remote, branch)] = theirs])}
        ELSE {Fail(g)}

\* git pull <remote> <branch> : diverged histories are joined by a merge commit
\* (patch 99)
pullBranch(g, remote, branch) ==
    LET theirs == server[RemoteRef(remote, branch)]
        ours   == Resolve(g, <<"HEAD">>)
    IN  IF ~netOk \/ theirs = None \/ ours = None THEN {Fail(g)}
        ELSE IF IsPrefix(ours, theirs)
             THEN {Done([g EXCEPT !.branches[g.head] = theirs,
                                  !.remoteRefs[RemoteRef(remote, branch)] = theirs])}
        ELSE IF IsPrefix(theirs, ours)
             THEN {Done([g EXCEPT !.remoteRefs[RemoteRef(remote, branch)] = theirs])}
        ELSE {Done([g EXCEPT !.branches[g.head] = ours \o After(theirs, ours) \o <<99>>,
                             !.remoteRefs[RemoteRef(remote, branch)] = theirs]),
              [ok |-> FALSE, g |-> [g EXCEPT !.files = @ \cup {"MERGE_HEAD"}]]}

----------------------------------------------------------------------------
(* Staging and committing (utils/git.ts) *)

\* the paths of a list, as a set
Paths(files) == {files[i] : i \in 1..Len(files)}

\* git status --porcelain : the changed paths
getChangedFiles(g) == g.changed

\* git add -- <files> : a path git does not know is fatal, a lock file too
stageFiles(g, files) ==
    IF "index.lock" \in g.files THEN {Fail(g)}
    ELSE IF files = <<>> THEN {Fail(g)}
    ELSE {Done([g EXCEPT !.staged = @ \cup (Paths(files) \cap g.changed)])}

\* git reset HEAD -- <files>
unstageFiles(g, files) ==
    IF "index.lock" \in g.files THEN {Fail(g)}
    ELSE {Done([g EXCEPT !.staged = @ \ Paths(files)])}

\* git commit -m <message> : everything in the index goes into the commit;
\* with an empty index there is nothing to commit
commitWithMessage(g, message) ==
    IF "index.lock" \in g.files \/ g.staged = {} THEN {Fail(g)}
    ELSE {Done([g EXCEPT !.made = Append(@, [files |-> g.staged, message |-> message]),
                         !.changed = @ \ g.staged,
                         !.staged = {},
                         !.dirty = (g.changed \ g.staged) # {}])}

----------------------------------------------------------------------------
(* Commit groups (utils/copilot.ts, commands/commit.ts) *)

CommitGroup(files, message) == [files |-> files, message |-> message]

\* a variant that leaves the file lists as the AI gave them
stripUnknownFiles_keepAll(groups, changedSet) == groups

\* group.files = group.files.filter((f) => changedSet.has(f))
stripUnknownFiles(groups, changedSet) ==
    [i \in 1..Len(groups) |->
        CommitGroup(SelectSeq(groups[i].files, LAMBDA f : f \in changedSet),
                    groups[i].message)]

\* groups.filter((g) => g.files.length > 0)
removeEmptyGroups(groups) == SelectSeq(groups, LAMBDA g : Len(g.files) > 0)

\* a variant that takes the files of the response as well
regenerateAllGroupMessages_takeFiles(groups, response) ==
    IF response.kind # "array" THEN groups
    ELSE IF Len(response.items) # Len(groups) THEN groups
    ELSE [i \in 1..Len(groups) |->
             CommitGroup(response.items[i].files,
                         IF response.items[i].isString
                         THEN response.items[i].message ELSE groups[i].message)]

\* an empty or unparsable response, or an array of another length, gives the
\* groups back; else each group keeps its files and takes the new message
\* when that is a string
regenerateAllGroupMessages(groups, response) ==
    IF response.kind # "array" THEN groups
    ELSE IF Len(response.items) # Len(groups) THEN groups
    ELSE [i \in 1..Len(groups) |->
             CommitGroup(groups[i].files,
                         IF response.items[i].isString
                         THEN response.items[i].message ELSE groups[i].message)]

\* validateCommitMessage : whether a message follows the configured convention
validateCommitMessage(message) == message \notin {"", "m2"}

\* the paths of the work tree, and a path the AI made up
Files == {"a", "b"}
Ghost == "x"

\* the file lists of a proposed group: a changed path, the made-up path
\* alone, and a changed path together with the made-up one
FileLists == {<<f>> : f \in Files \cup {Ghost}} \cup {<<"a", Ghost>>}

SeqsUpTo(S, n) == UNION {[1..k -> S] : k \in 0..n}

\* what generateCommitGroups can return: a non-empty array of groups
AiGroupings ==
    SeqsUpTo({CommitGroup(fl, m) : fl \in FileLists, m \in {"m1", "m2"}}, MaxGroups)
        \ {<<>>}

\* what the AI can answer when asked for new messages
AiRegenResponses ==
    {[kind |-> k, items |-> <<>>] : k \in {"empty", "malformed", "throws"}}
    \cup
    {[kind |-> "array", items |-> items] :
        items \in SeqsUpTo({[files |-> <<Ghost>>, message |-> "m3", isString |-> TRUE],
                            [files |-> <<>>, message |-> "", isString |-> FALSE]},
                           MaxGroups)}

----------------------------------------------------------------------------
(* The running command *)

\* one issued git command: its operands (ref names a and b, commit h) and
\* whether it exited with 0
E(op, a, b, h, ok) == [op |-> op, a |-> a, b |-> b, h |-> h, ok |-> ok]

L0 == [currentBranch    |-> None,
       newBranchName    |-> None,
       action           |-> "",
       noWork           |-> FALSE,
       staleUpstreamHash |-> None,
       savedUpstreamRef |-> None,
       drsBranch        |-> None,
       drsSyncRef       |-> None,
       upstreamRef      |-> None,
       upstreamHash     |-> None,
       forkFromUpstream |-> None,
       forkFromSync     |-> None,
       mbU              |-> "idle",
       mbS              |-> "idle",
       mbFirst          |-> "",
       firstStrategy    |-> Plain,
       firstOrder       |-> "",
       strategy         |-> Plain,
       ret              |-> "",
       aret             |-> "",
       asserted         |-> FALSE,
       allowMergeCommit |-> FALSE,
       mergedCandidates |-> <<>>,
       goneCandidates   |-> <<>>,
       phase            |-> "",
       idx              |-> 0,
       hResult          |-> "",
       promptHead       |-> None,
       promptLog        |-> 0,
       renamedTip       |-> None,
       inflight         |-> {},
       copilotError     |-> FALSE,
       changedFiles     |-> {},
       groups           |-> <<>>,
       validGroups      |-> <<>>,
       commitAll        |-> FALSE,
       committed        |-> 0,
       message          |-> "",
       regens           |-> 0,
       branch           |-> None,
       isProtected      |-> FALSE,
       baseResult       |-> None,
       baseProtected    |-> FALSE,
       baseListed       |-> FALSE,
       base             |-> None,
       div              |-> [ahead |-> 0, behind |-> 0],
       movedFrom        |-> None,
       stagedAtStart    |-> {},
       source           |-> [remote |-> "", ref |-> None, strategy |-> ""]]

baseBranch == getBaseBranch(config)
syncSource == getSyncSource(config)

Goto(p)      == pc' = p /\ exitCode' = exitCode /\ out' = out
GotoSay(p, m) == pc' = p /\ exitCode' = exitCode /\ out' = out \cup {m}
\* `return` from run()
Return(m)    == pc' = "done" /\ exitCode' = 0 /\ out' = out \cup {m}
\* process.exit(code)
Exit(code, m) == pc' = "exit" /\ exitCode' = code /\ out' = out \cup {m}

Running == exitCode = -1

----------------------------------------------------------------------------
(* assertCleanGitState (utils/git.ts) *)

AssertCheck ==
    /\ Running /\ pc = "a_check"
    /\ LET st == checkGitState(git) IN
       IF st.lockFile THEN Exit(1, "lock-file") /\ L' = L
       ELSE IF st.inProgressOp # "" THEN Exit(1, "in-progress") /\ L' = L
       ELSE Goto("a_shallow") /\ L' = L
    /\ log' = Append(log, E("rev-parse-git-dir", None, None, None, gitDirOk))
    /\ UNCHANGED <<cmd, git, env>>

AssertShallow ==
    /\ Running /\ pc = "a_shallow"
    /\ IF isShallowRepo THEN GotoSay(L.aret, "shallow-warning") ELSE Goto(L.aret)
    /\ L' = [L EXCEPT !.asserted = TRUE]
    /\ log' = Append(log, E("rev-parse-is-shallow", None, None, None, TRUE))
    /\ UNCHANGED <<cmd, git, env>>

----------------------------------------------------------------------------
(* determineRebaseStrategy (utils/git.ts), called with L.drsBranch and      *)
(* L.drsSyncRef; it returns L.strategy at L.ret                             *)

DrsUpstream ==
    /\ Running /\ pc = "drs_upstream"
    /\ LET u == getUpstreamRef(git) IN
       IF u = None
       THEN /\ L' = [L EXCEPT !.upstreamRef = None, !.strategy = Plain]
            /\ Goto(L.ret)
       ELSE /\ L' = [L EXCEPT !.upstreamRef = u]
            /\ Goto("drs_hash")
    /\ UNCHANGED <<cmd, log, git, env>>

DrsHash ==
    /\ Running /\ pc = "drs_hash"
    /\ LET upstreamHash == getCommitHash(git, L.upstreamRef) IN
       IF upstreamHash = None
       THEN /\ L' = [L EXCEPT !.upstreamHash = None, !.strategy = Plain]
            /\ Goto(L.ret)
       ELSE IF upstreamBranchName(L.upstreamRef) = L.drsBranch
       THEN /\ L' = [L EXCEPT !.upstreamHash = upstreamHash, !.strategy = Plain]
            /\ Goto(L.ret)
       ELSE /\ L' = [L EXCEPT !.upstreamHash = upstreamHash,
                              !.mbU = "pending", !.mbS = "pending", !.mbFirst = ""]
            /\ Goto("drs_mb")
    /\ UNCHANGED <<cmd, log, git, env>>

\* the two merge-base queries of the Promise.all end in either order; each
\* result goes to its position in the array.  L.mbFirst notes which ended first
DrsMergeBaseUpstream ==
    /\ Running /\ pc = "drs_mb" /\ L.mbU = "pending"
    /\ L' = [L EXCEPT !.forkFromUpstream = getMergeBase(git, <<"HEAD">>, L.upstreamRef),
                      !.mbU = "done",
                      !.mbFirst = IF L.mbS = "pending" THEN "upstream" ELSE @]
    /\ Goto("drs_mb")
    /\ UNCHANGED <<cmd, log, git, env>>

\* a variant that fills the results in the order of arrival
DrsMergeBaseSync_byArrival ==
    /\ Running /\ pc = "drs_mb" /\ L.mbS = "pending"
    /\ L' = IF L.mbU = "pending"
            THEN [L EXCEPT !.forkFromUpstream = getMergeBase(git, <<"HEAD">>, L.drsSyncRef),
                           !.mbS = "done", !.mbFirst = "sync"]
            ELSE [L EXCEPT !.forkFromSync = getMergeBase(git, <<"HEAD">>, L.drsSyncRef),
                           !.mbS = "done"]
    /\ Goto("drs_mb")
    /\ UNCHANGED <<cmd, log, git, env>>

DrsMergeBaseSync ==
    /\ Running /\ pc = "drs_mb" /\ L.mbS = "pending"
    /\ L' = [L EXCEPT !.forkFromSync = getMergeBase(git, <<"HEAD">>, L.drsSyncRef),
                      !.mbS = "done",
                      !.mbFirst = IF L.mbU = "pending" THEN "sync" ELSE @]
    /\ Goto("drs_mb")
    /\ UNCHANGED <<cmd, log, git, env>>

DrsDecide ==
    /\ Running /\ pc = "drs_mb" /\ L.mbU = "done" /\ L.mbS = "done"
    /\ L' = [L EXCEPT !.strategy = decideFromForks(L.forkFromUpstream, L.forkFromSync),
                      !.mbU = "idle", !.mbS = "idle"]
    /\ Goto(L.ret)
    /\ UNCHANGED <<cmd, log, git, env>>

CallDrs(branch, syncRef, ret) ==
    [L EXCEPT !.drsBranch = branch, !.drsSyncRef = syncRef, !.ret = ret,
              !.upstreamRef = None, !.upstreamHash = None,
              !.forkFromUpstream = None, !.forkFromSync = None]

----------------------------------------------------------------------------
(* contrib update (commands/update.ts) *)

UpdateStart ==
    /\ Running /\ cmd = "update" /\ pc = "start"
    /\ LET currentBranch == getCurrentBranch(git) IN
       /\ L' = [L EXCEPT !.currentBranch = currentBranch]
       /\ IF currentBranch = None THEN Exit(1, "no-current-branch")
          ELSE IF Includes(getProtectedBranches(config), currentBranch)
               THEN Goto("u_prot_fetch")
          ELSE IF hasUncommittedChanges(git) THEN Exit(1, "uncommitted")
          ELSE Goto("u_pr")
    /\ UNCHANGED <<cmd, log, git, env>>

UpdateProtectedFetch ==
    /\ Running /\ cmd = "update" /\ pc = "u_prot_fetch"
    /\ \E o \in fetchAll(git) :
          /\ git' = o.g
          /\ log' = Append(log, E("fetch-all", None, None, None, o.ok))
    /\ LET localWork == hasLocalWork(git', config.origin, L.currentBranch)
           dirty     == hasUncommittedChanges(git')
       IN  IF ~(localWork.unpushedCommits > 0 \/ dirty)
           THEN Exit(1, "no-local-changes")
           ELSE Goto("u_prot_prompt")
    /\ UNCHANGED <<cmd, L, env>>

UpdateProtectedChoose ==
    /\ Running /\ cmd = "update" /\ pc = "u_prot_prompt"
    /\ \E action \in {"MOVE_BRANCH", "CANCEL_STAY"}, name \in NameInputs :
          IF action = "CANCEL_STAY"
          THEN /\ Return("no-changes-made")
               /\ L' = [L EXCEPT !.action = action]
          ELSE IF ~isValidBranchName(name)
          THEN /\ Exit(1, "invalid-branch-name")
               /\ L' = [L EXCEPT !.action = action]
          ELSE /\ Goto("u_prot_create")
               /\ L' = [L EXCEPT !.action = action, !.newBranchName = name]
    /\ UNCHANGED <<cmd, log, git, env>>

\* a variant that goes on to the reset whatever the creation returned
UpdateProtectedCreate_unchecked ==
    /\ Running /\ cmd = "update" /\ pc = "u_prot_create"
    /\ \E o \in createBranch(git, L.newBranchName, <<"HEAD">>) :
          /\ git' = o.g
          /\ log' = Append(log, E("checkout-b", L.newBranchName, None, None, o.ok))
          /\ Goto("u_prot_reset")
    /\ UNCHANGED <<cmd, L, env>>

UpdateProtectedCreate ==
    /\ Running /\ cmd = "update" /\ pc = "u_prot_create"
    /\ \E o \in createBranch(git, L.newBranchName, <<"HEAD">>) :
          /\ git' = o.g
          /\ log' = Append(log, E("checkout-b", L.newBranchName, None, None, o.ok))
          /\ IF o.ok THEN Goto("u_prot_reset") ELSE Exit(1, "create-failed")
    /\ UNCHANGED <<cmd, L, env>>

\* the git command updateLocalBranch issues
UpdateOp(g, branch) == IF getCurrentBranch(g) = branch THEN "reset-hard" ELSE "branch-f"

UpdateProtectedReset ==
    /\ Running /\ cmd = "update" /\ pc = "u_prot_reset"
    /\ \E o \in updateLocalBranch(git, L.currentBranch,
                                  RemoteRef(config.origin, L.currentBranch)) :
          /\ git' = o.g
          /\ log' = Append(log, E(UpdateOp(git, L.currentBranch), L.currentBranch,
                                  RemoteRef(config.origin, L.currentBranch), None, o.ok))
    /\ Return("moved-to-new-branch")
    /\ UNCHANGED <<cmd, L, env>>

\* is the branch's pull request already merged?
UpdateCheckMergedPR ==
    /\ Running /\ cmd = "update" /\ pc = "u_pr"
    /\ IF getMergedPRForBranch(L.currentBranch)
       THEN Goto("stale_inspect") ELSE Goto("u_fetch")
    /\ UNCHANGED <<cmd, L, log, git, env>>

UpdateFetch ==
    /\ Running /\ cmd = "update" /\ pc = "u_fetch"
    /\ \E o \in fetchRemote(git, syncSource.remote) :
          /\ git' = o.g
          /\ log' = Append(log, E("fetch", <<syncSource.remote>>, None, None, o.ok))
    /\ Goto("u_update_base")
    /\ UNCHANGED <<cmd, L, env>>

UpdateBase ==
    /\ Running /\ cmd = "update" /\ pc = "u_update_base"
    /\ \E o \in updateLocalBranch(git, baseBranch, syncSource.ref) :
          /\ git' = o.g
          /\ log' = Append(log, E(UpdateOp(git, baseBranch), baseBranch,
                                  syncSource.ref, None, o.ok))
    /\ L' = CallDrs(L.currentBranch, syncSource.ref, "u_rebase")
    /\ Goto("drs_upstream")
    /\ UNCHANGED <<cmd, env>>

\* the rebase a strategy stands for: its outcomes and its log entry
RebaseBy(g, strategy, syncRef) ==
    IF strategy.strategy = "onto" /\ strategy.ontoOldBase # None
    THEN {[o |-> o, e |-> E("rebase-onto", syncRef, None, strategy.ontoOldBase, o.ok)] :
              o \in rebaseOnto(g, syncRef, strategy.ontoOldBase)}
    ELSE {[o |-> o, e |-> E("rebase", syncRef, None, None, o.ok)] :
              o \in rebase(g, syncRef)}

UpdateRebase ==
    /\ Running /\ cmd = "update" /\ pc = "u_rebase"
    /\ \E r \in RebaseBy(git, L.strategy, syncSource.ref) :
          /\ git' = r.o.g
          /\ log' = Append(log, r.e)
          /\ IF r.o.ok THEN Return("rebased")
             ELSE GotoSay("u_conflict", "rebase-conflicts-resolve-manually")
    /\ UNCHANGED <<cmd, L, env>>

\* on conflict: the AI guidance, when there is one, is printed; then the
\* steps to resolve are printed and the process exits with 1
UpdateConflict ==
    /\ Running /\ cmd = "update" /\ pc = "u_conflict"
    /\ \E suggestion \in BOOLEAN :
          /\ pc' = "exit" /\ exitCode' = 1
          /\ out' = out \cup (IF suggestion THEN {"ai-conflict-guidance"} ELSE {})
                       \cup {"to-resolve-steps"}
    /\ UNCHANGED <<cmd, L, log, git, env>>

----------------------------------------------------------------------------
(* The stale-branch flow of update and submit: the pull request of the      *)
(* current branch is merged (commands/update.ts, commands/submit.ts)        *)

StaleCmd == cmd = "update" \/ cmd = "submit"

\* update asks hasLocalWork about the sync remote, submit about origin
StaleRemote == IF cmd = "update" THEN syncSource.remote ELSE config.origin

StaleInspect ==
    /\ Running /\ StaleCmd /\ pc = "stale_inspect"
    /\ LET localWork == hasLocalWork(git, StaleRemote, L.currentBranch)
           hasWork   == localWork.uncommitted \/ localWork.unpushedCommits > 0
       IN  IF hasWork
           THEN /\ Goto("stale_prompt")
                /\ L' = [L EXCEPT !.promptHead = git.head, !.promptLog = Len(log)]
           ELSE /\ Goto("discard_fetch")
                /\ L' = [L EXCEPT !.noWork = TRUE]
    /\ UNCHANGED <<cmd, log, git, env>>

StaleChoose ==
    /\ Running /\ StaleCmd /\ pc = "stale_prompt"
    /\ \E action \in {"SAVE_NEW_BRANCH", "DISCARD", "CANCEL"}, name \in NameInputs :
          IF action = "CANCEL"
          THEN /\ Return("no-changes-made")
               /\ L' = [L EXCEPT !.action = action]
          ELSE IF action = "DISCARD"
          THEN /\ Goto("discard_fetch")
               /\ L' = [L EXCEPT !.action = action]
          ELSE IF ~isValidBranchName(name)
          THEN /\ Exit(1, "invalid-branch-name")
               /\ L' = [L EXCEPT !.action = action]
          ELSE /\ Goto("save_rename")
               /\ L' = [L EXCEPT !.action = action, !.newBranchName = name,
                          !.staleUpstreamHash =
                              IF getUpstreamRef(git) # None
                              THEN getCommitHash(git, getUpstreamRef(git)) ELSE None]
    /\ UNCHANGED <<cmd, log, git, env>>

\* a variant that goes on to the next step whatever the rename returned
SaveRename_ignoreFailure ==
    /\ Running /\ StaleCmd /\ pc = "save_rename"
    /\ \E o \in renameBranch(git, L.currentBranch, L.newBranchName) :
          /\ git' = o.g
          /\ log' = Append(log, E("rename", L.currentBranch, L.newBranchName, None, o.ok))
          /\ Goto("save_unset")
    /\ L' = [L EXCEPT !.renamedTip = git.branches[L.currentBranch]]
    /\ UNCHANGED <<cmd, env>>

SaveRename ==
    /\ Running /\ StaleCmd /\ pc = "save_rename"
    /\ \E o \in renameBranch(git, L.currentBranch, L.newBranchName) :
          /\ git' = o.g
          /\ log' = Append(log, E("rename", L.currentBranch, L.newBranchName, None, o.ok))
          /\ IF o.ok THEN Goto("save_unset") ELSE Exit(1, "rename-failed")
    /\ L' = [L EXCEPT !.renamedTip = git.branches[L.currentBranch]]
    /\ UNCHANGED <<cmd, env>>

SaveUnsetUpstream ==
    /\ Running /\ StaleCmd /\ pc = "save_unset"
    /\ \E o \in unsetUpstream(git) :
          /\ git' = o.g
          /\ log' = Append(log, E("unset-upstream", None, None, None, o.ok))
    /\ Goto("save_fetch")
    /\ UNCHANGED <<cmd, L, env>>

SaveFetch ==
    /\ Running /\ StaleCmd /\ pc = "save_fetch"
    /\ \E o \in fetchRemote(git, syncSource.remote) :
          /\ git' = o.g
          /\ log' = Append(log, E("fetch", <<syncSource.remote>>, None, None, o.ok))
    /\ IF L.staleUpstreamHash # None
       THEN Goto("save_rebase_stale") /\ L' = L
       ELSE Goto("drs_upstream")
            /\ L' = CallDrs(L.newBranchName, syncSource.ref, "save_rebase")
    /\ UNCHANGED <<cmd, env>>

\* a variant that reports success whatever the rebase's exit code
SaveRebaseStale_noReport ==
    /\ Running /\ StaleCmd /\ pc = "save_rebase_stale"
    /\ \E o \in rebaseOnto(git, syncSource.ref, L.staleUpstreamHash) :
          /\ git' = o.g
          /\ log' = Append(log, E("rebase-onto", syncSource.ref, None,
                                  L.staleUpstreamHash, o.ok))
          /\ Return("saved-and-rebased")
    /\ UNCHANGED <<cmd, L, env>>

\* the stale upstream hash was captured: rebase --onto syncRef staleUpstreamHash
SaveRebaseStale ==
    /\ Running /\ StaleCmd /\ pc = "save_rebase_stale"
    /\ \E o \in rebaseOnto(git, syncSource.ref, L.staleUpstreamHash) :
          /\ git' = o.g
          /\ log' = Append(log, E("rebase-onto", syncSource.ref, None,
                                  L.staleUpstreamHash, o.ok))
          /\ IF o.ok THEN Return("saved-and-rebased")
             ELSE Return("rebase-conflicts-continue-manually")
    /\ UNCHANGED <<cmd, L, env>>

\* otherwise the strategy of determineRebaseStrategy is applied
SaveRebase ==
    /\ Running /\ StaleCmd /\ pc = "save_rebase"
    /\ \E r \in RebaseBy(git, L.strategy, syncSource.ref) :
          /\ git' = r.o.g
          /\ log' = Append(log, r.e)
          /\ IF r.o.ok THEN Return("saved-and-rebased")
             ELSE Return("rebase-conflicts-continue-manually")
    /\ UNCHANGED <<cmd, L, env>>

\* no local work, or the user chose to discard it
DiscardFetch ==
    /\ Running /\ StaleCmd /\ pc = "discard_fetch"
    /\ \E o \in fetchRemote(git, syncSource.remote) :
          /\ git' = o.g
          /\ log' = Append(log, E("fetch", <<syncSource.remote>>, None, None, o.ok))
    /\ Goto("discard_checkout")
    /\ UNCHANGED <<cmd, L, env>>

DiscardCheckout ==
    /\ Running /\ StaleCmd /\ pc = "discard_checkout"
    /\ \E o \in checkoutBranch(git, baseBranch) :
          /\ git' = o.g
          /\ log' = Append(log, E("checkout", baseBranch, None, None, o.ok))
          /\ IF o.ok THEN Goto("discard_update") ELSE Exit(1, "checkout-failed")
    /\ UNCHANGED <<cmd, L, env>>

DiscardUpdate ==
    /\ Running /\ StaleCmd /\ pc = "discard_update"
    /\ \E o \in updateLocalBranch(git, baseBranch, syncSource.ref) :
          /\ git' = o.g
          /\ log' = Append(log, E(UpdateOp(git, baseBranch), baseBranch,
                                  syncSource.ref, None, o.ok))
    /\ Goto("discard_delete")
    /\ UNCHANGED <<cmd, L, env>>

DiscardDelete ==
    /\ Running /\ StaleCmd /\ pc = "discard_delete"
    /\ \E o \in forceDeleteBranch(git, L.currentBranch) :
          /\ git' = o.g
          /\ log' = Append(log, E("branch-D", L.currentBranch, None, None, o.ok))
    /\ Return("stale-branch-cleaned")
    /\ UNCHANGED <<cmd, L, env>>

----------------------------------------------------------------------------
(* contrib submit, up to the pull-request phase (commands/submit.ts) *)

SubmitStart ==
    /\ Running /\ cmd = "submit" /\ pc = "start"
    /\ LET currentBranch == getCurrentBranch(git) IN
       /\ L' = [L EXCEPT !.currentBranch = currentBranch]
       /\ IF currentBranch = None THEN Exit(1, "no-current-branch")
          ELSE IF Includes(getProtectedBranches(config), currentBranch)
               THEN Exit(1, "cannot-submit-protected")
          ELSE IF checkGhInstalled /\ checkGhAuth /\ getMergedPRForBranch(currentBranch)
               THEN Goto("stale_inspect")
          ELSE Goto("pr_phase")
    /\ UNCHANGED <<cmd, log, git, env>>

----------------------------------------------------------------------------
(* contrib clean (commands/clean.ts) *)

CleanPrune ==
    /\ Running /\ cmd = "clean" /\ pc = "start"
    /\ \E o \in pruneRemote(git, config.origin) :
          /\ git' = o.g
          /\ log' = Append(log, E("remote-prune", <<config.origin>>, None, None, o.ok))
    /\ L' = [L EXCEPT !.currentBranch = getCurrentBranch(git)]
    /\ Goto("c_detect")
    /\ UNCHANGED <<cmd, env>>

CleanDetect ==
    /\ Running /\ cmd = "clean" /\ pc = "c_detect"
    /\ LET protectedBranches == getProtectedBranches(config)
           mergedCandidates  ==
               SelectSeq(getMergedBranches(git, baseBranch),
                         LAMBDA b : ~Includes(protectedBranches, b))
           goneCandidates    ==
               SelectSeq(getGoneBranches(git),
                         LAMBDA b : ~Includes(protectedBranches, b)
                                    /\ ~Includes(mergedCandidates, b))
           pushCurrent       ==
               /\ L.currentBranch # None
               /\ ~Includes(protectedBranches, L.currentBranch)
               /\ ~Includes(mergedCandidates, L.currentBranch)
               /\ ~Includes(goneCandidates, L.currentBranch)
               /\ checkGhInstalled /\ checkGhAuth
               /\ getMergedPRForBranch(L.currentBranch)
       IN  L' = [L EXCEPT !.mergedCandidates = mergedCandidates,
                          !.goneCandidates =
                              IF pushCurrent THEN Append(goneCandidates, L.currentBranch)
                              ELSE goneCandidates]
    /\ Goto("c_merged")
    /\ UNCHANGED <<cmd, log, git, env>>

\* "Delete N merged branches?" (args.yes || confirmPrompt)
CleanAskMerged ==
    /\ Running /\ cmd = "clean" /\ pc = "c_merged"
    /\ IF Len(L.mergedCandidates) = 0
       THEN Goto("c_gone") /\ L' = L
       ELSE \E ok \in BOOLEAN :
               IF ok THEN Goto("c_loop") /\ L' = [L EXCEPT !.phase = "merged", !.idx = 1]
               ELSE GotoSay("c_gone", "skipped-merged-deletion") /\ L' = L
    /\ UNCHANGED <<cmd, log, git, env>>

\* "Delete N stale branches?"
CleanAskGone ==
    /\ Running /\ cmd = "clean" /\ pc = "c_gone"
    /\ IF Len(L.goneCandidates) = 0
       THEN Return("clean-done") /\ L' = L
       ELSE \E ok \in BOOLEAN :
               IF ok THEN Goto("c_loop") /\ L' = [L EXCEPT !.phase = "gone", !.idx = 1]
               ELSE Return("skipped-stale-deletion") /\ L' = L
    /\ UNCHANGED <<cmd, log, git, env>>

Candidates == IF L.phase = "merged" THEN L.mergedCandidates ELSE L.goneCandidates

\* the head of `for (const branch of candidates)`
CleanLoop ==
    /\ Running /\ cmd = "clean" /\ pc = "c_loop"
    /\ IF L.idx > Len(Candidates)
       THEN IF L.phase = "merged" THEN Goto("c_gone") ELSE Return("clean-done")
       ELSE IF Candidates[L.idx] = L.currentBranch
            THEN Goto("h_inspect")
            ELSE Goto("c_delete")
    /\ UNCHANGED <<cmd, L, log, git, env>>

\* a variant without the `continue` of the skipped case
CleanAfterHandle_noContinue ==
    /\ Running /\ cmd = "clean" /\ pc = "c_after"
    /\ IF L.hResult = "saved"
       THEN Goto("c_loop") /\ L' = [L EXCEPT !.idx = @ + 1, !.currentBranch = baseBranch]
       ELSE Goto("c_delete") /\ L' = L
    /\ UNCHANGED <<cmd, log, git, env>>

\* what the loop does with the result of handleCurrentBranchDeletion
CleanAfterHandle ==
    /\ Running /\ cmd = "clean" /\ pc = "c_after"
    /\ IF L.hResult = "skipped"
       THEN GotoSay("c_loop", "skipped-branch") /\ L' = [L EXCEPT !.idx = @ + 1]
       ELSE IF L.hResult = "saved"
       THEN Goto("c_loop") /\ L' = [L EXCEPT !.idx = @ + 1, !.currentBranch = baseBranch]
       ELSE Goto("c_delete") /\ L' = [L EXCEPT !.currentBranch = baseBranch]
    /\ UNCHANGED <<cmd, log, git, env>>

\* a variant that uses the plain delete in both loops
CleanDelete_plainOnly ==
    /\ Running /\ cmd = "clean" /\ pc = "c_delete"
    /\ \E o \in deleteBranch(git, Candidates[L.idx]) :
          /\ git' = o.g
          /\ log' = Append(log, E("branch-d", Candidates[L.idx], None, None, o.ok))
    /\ L' = [L EXCEPT !.idx = @ + 1]
    /\ Goto("c_loop")
    /\ UNCHANGED <<cmd, env>>

\* merged branches go with `branch -d`, stale ones with `branch -D`
CleanDelete ==
    /\ Running /\ cmd = "clean" /\ pc = "c_delete"
    /\ LET branch == Candidates[L.idx] IN
       IF L.phase = "merged"
       THEN \E o \in deleteBranch(git, branch) :
               /\ git' = o.g
               /\ log' = Append(log, E("branch-d", branch, None, None, o.ok))
       ELSE \E o \in forceDeleteBranch(git, branch) :
               /\ git' = o.g
               /\ log' = Append(log, E("branch-D", branch, None, None, o.ok))
    /\ L' = [L EXCEPT !.idx = @ + 1]
    /\ Goto("c_loop")
    /\ UNCHANGED <<cmd, env>>

----------------------------------------------------------------------------
(* handleCurrentBranchDeletion (commands/clean.ts); its result is L.hResult *)

HInspect ==
    /\ Running /\ cmd = "clean" /\ pc = "h_inspect"
    /\ LET localWork == hasLocalWork(git, config.origin, L.currentBranch)
           hasWork   == localWork.uncommitted \/ localWork.unpushedCommits > 0
       IN  IF hasWork
           THEN /\ Goto("h_prompt")
                /\ L' = [L EXCEPT !.promptHead = git.head, !.promptLog = Len(log)]
           ELSE /\ Goto("h_switch_fetch")
                /\ L' = [L EXCEPT !.noWork = TRUE]
    /\ UNCHANGED <<cmd, log, git, env>>

HChoose ==
    /\ Running /\ cmd = "clean" /\ pc = "h_prompt"
    /\ \E action \in {"SAVE_NEW_BRANCH", "DISCARD", "CANCEL"}, name \in NameInputs :
          IF action = "CANCEL"
          THEN /\ Goto("c_after")
               /\ L' = [L EXCEPT !.action = action, !.hResult = "skipped"]
          ELSE IF action = "DISCARD"
          THEN /\ Goto("h_switch_fetch")
               /\ L' = [L EXCEPT !.action = action]
          ELSE IF ~isValidBranchName(name)
          THEN /\ GotoSay("c_after", "invalid-branch-name")
               /\ L' = [L EXCEPT !.action = action, !.hResult = "skipped"]
          ELSE /\ Goto("h_rename")
               /\ L' = [L EXCEPT !.action = action, !.newBranchName = name]
    /\ UNCHANGED <<cmd, log, git, env>>

HRename ==
    /\ Running /\ cmd = "clean" /\ pc = "h_rename"
    /\ \E o \in renameBranch(git, L.currentBranch, L.newBranchName) :
          /\ git' = o.g
          /\ log' = Append(log, E("rename", L.currentBranch, L.newBranchName, None, o.ok))
          /\ IF o.ok
             THEN /\ Goto("h_save_fetch")
                  /\ L' = [L EXCEPT !.renamedTip = git.branches[L.currentBranch]]
             ELSE /\ GotoSay("c_after", "rename-failed")
                  /\ L' = [L EXCEPT !.hResult = "skipped"]
    /\ UNCHANGED <<cmd, env>>

HSaveFetch ==
    /\ Running /\ cmd = "clean" /\ pc = "h_save_fetch"
    /\ \E o \in fetchRemote(git, syncSource.remote) :
          /\ git' = o.g
          /\ log' = Append(log, E("fetch", <<syncSource.remote>>, None, None, o.ok))
    /\ L' = [L EXCEPT !.savedUpstreamRef = getUpstreamRef(git')]
    /\ Goto("h_save_rebase")
    /\ UNCHANGED <<cmd, env>>

\* rebase --onto syncRef <savedUpstreamRef> when an upstream other than the
\* sync ref is configured, else rebase syncRef
HSaveRebase ==
    /\ Running /\ cmd = "clean" /\ pc = "h_save_rebase"
    /\ IF L.savedUpstreamRef # None /\ L.savedUpstreamRef # syncSource.ref
       THEN \E o \in rebaseOnto(git, syncSource.ref, Resolve(git, L.savedUpstreamRef)) :
               /\ git' = o.g
               /\ log' = Append(log, E("rebase-onto", syncSource.ref, L.savedUpstreamRef,
                                       Resolve(git, L.savedUpstreamRef), o.ok))
               /\ IF o.ok THEN Goto("h_save_checkout")
                  ELSE GotoSay("h_save_checkout", "rebase-conflicts-resolve-after-cleanup")
       ELSE \E o \in rebase(git, syncSource.ref) :
               /\ git' = o.g
               /\ log' = Append(log, E("rebase", syncSource.ref, None, None, o.ok))
               /\ IF o.ok THEN Goto("h_save_checkout")
                  ELSE GotoSay("h_save_checkout", "rebase-conflicts-resolve-after-cleanup")
    /\ UNCHANGED <<cmd, L, env>>

HSaveCheckout ==
    /\ Running /\ cmd = "clean" /\ pc = "h_save_checkout"
    /\ \E o \in checkoutBranch(git, baseBranch) :
          /\ git' = o.g
          /\ log' = Append(log, E("checkout", baseBranch, None, None, o.ok))
          /\ IF o.ok THEN Goto("h_save_update") /\ L' = L
             ELSE GotoSay("c_after", "checkout-failed") /\ L' = [L EXCEPT !.hResult = "saved"]
    /\ UNCHANGED <<cmd, env>>

HSaveUpdate ==
    /\ Running /\ cmd = "clean" /\ pc = "h_save_update"
    /\ \E o \in updateLocalBranch(git, baseBranch, syncSource.ref) :
          /\ git' = o.g
          /\ log' = Append(log, E(UpdateOp(git, baseBranch), baseBranch,
                                  syncSource.ref, None, o.ok))
    /\ L' = [L EXCEPT !.hResult = "saved"]
    /\ Goto("c_after")
    /\ UNCHANGED <<cmd, env>>

\* no local work, or the user chose to discard it
HSwitchFetch ==
    /\ Running /\ cmd = "clean" /\ pc = "h_switch_fetch"
    /\ \E o \in fetchRemote(git, syncSource.remote) :
          /\ git' = o.g
          /\ log' = Append(log, E("fetch", <<syncSource.remote>>, None, None, o.ok))
    /\ Goto("h_switch_checkout")
    /\ UNCHANGED <<cmd, L, env>>

HSwitchCheckout ==
    /\ Running /\ cmd = "clean" /\ pc = "h_switch_checkout"
    /\ \E o \in checkoutBranch(git, baseBranch) :
          /\ git' = o.g
          /\ log' = Append(log, E("checkout", baseBranch, None, None, o.ok))
          /\ IF o.ok THEN Goto("h_switch_update") /\ L' = L
             ELSE GotoSay("c_after", "checkout-failed") /\ L' = [L EXCEPT !.hResult = "skipped"]
    /\ UNCHANGED <<cmd, env>>

HSwitchUpdate ==
    /\ Running /\ cmd = "clean" /\ pc = "h_switch_update"
    /\ \E o \in updateLocalBranch(git, baseBranch, syncSource.ref) :
          /\ git' = o.g
          /\ log' = Append(log, E(UpdateOp(git, baseBranch), baseBranch,
                                  syncSource.ref, None, o.ok))
    /\ L' = [L EXCEPT !.hResult = "switched"]
    /\ Goto("c_after")
    /\ UNCHANGED <<cmd, env>>

----------------------------------------------------------------------------
(* contrib sync (commands/sync.ts) *)

SyncStart ==
    /\ Running /\ cmd = "sync" /\ pc = "start"
    /\ L' = [L EXCEPT !.aret = "s_dirty"]
    /\ Goto("a_check")
    /\ UNCHANGED <<cmd, log, git, env>>

SyncDirty ==
    /\ Running /\ cmd = "sync" /\ pc = "s_dirty"
    /\ IF hasUncommittedChanges(git) THEN Exit(1, "uncommitted") ELSE Goto("s_fetch")
    /\ UNCHANGED <<cmd, L, log, git, env>>

SyncFetch ==
    /\ Running /\ cmd = "sync" /\ pc = "s_fetch"
    /\ \E o \in fetchRemote(git, syncSource.remote) :
          /\ git' = o.g
          /\ log' = Append(log, E("fetch", <<syncSource.remote>>, None, None, o.ok))
          /\ IF ~o.ok THEN Exit(1, "fetch-failed")
             ELSE IF config.role = "contributor" /\ syncSource.remote # config.origin
                  THEN Goto("s_fetch_origin")
                  ELSE Goto("s_ref")
    /\ UNCHANGED <<cmd, L, env>>

SyncFetchOrigin ==
    /\ Running /\ cmd = "sync" /\ pc = "s_fetch_origin"
    /\ \E o \in fetchRemote(git, config.origin) :
          /\ git' = o.g
          /\ log' = Append(log, E("fetch", <<config.origin>>, None, None, o.ok))
    /\ Goto("s_ref")
    /\ UNCHANGED <<cmd, L, env>>

\* the sync ref must exist; local commits on a protected base branch are
\* offered to be moved
SyncCheckRef ==
    /\ Running /\ cmd = "sync" /\ pc = "s_ref"
    /\ LET div           == getDivergence(git, baseBranch, syncSource.ref)
           currentBranch == getCurrentBranch(git)
           isOnProtected == /\ currentBranch # None
                            /\ Includes(getProtectedBranches(config), currentBranch)
       IN  /\ L' = [L EXCEPT !.currentBranch = currentBranch, !.allowMergeCommit = FALSE]
           /\ IF ~refExists(git, syncSource.ref) THEN Exit(1, "remote-ref-missing")
              ELSE IF div.ahead > 0 /\ isOnProtected THEN Goto("s_prompt")
              ELSE Goto("s_confirm")
    /\ UNCHANGED <<cmd, log, git, env>>

SyncChoose ==
    /\ Running /\ cmd = "sync" /\ pc = "s_prompt"
    /\ \E action \in {"MOVE_BRANCH", "PULL_ANYWAY", "CANCEL_SYNC"}, name \in NameInputs :
          IF action = "CANCEL_SYNC"
          THEN /\ Return("no-changes-made")
               /\ L' = [L EXCEPT !.action = action]
          ELSE IF action = "PULL_ANYWAY"
          THEN /\ GotoSay("s_confirm", "merge-commit-may-be-created")
               /\ L' = [L EXCEPT !.action = action, !.allowMergeCommit = TRUE]
          ELSE IF ~isValidBranchName(name)
          THEN /\ Exit(1, "invalid-branch-name")
               /\ L' = [L EXCEPT !.action = action]
          ELSE IF branchExists(git, name)
          THEN /\ Exit(1, "branch-exists")
               /\ L' = [L EXCEPT !.action = action]
          ELSE /\ Goto("s_move_create")
               /\ L' = [L EXCEPT !.action = action, !.newBranchName = name,
                                 !.movedFrom = git.branches[baseBranch]]
    /\ UNCHANGED <<cmd, log, git, env>>

SyncMoveCreate ==
    /\ Running /\ cmd = "sync" /\ pc = "s_move_create"
    /\ \E o \in createBranch(git, L.newBranchName, <<"HEAD">>) :
          /\ git' = o.g
          /\ log' = Append(log, E("checkout-b", L.newBranchName, None, None, o.ok))
          /\ IF o.ok THEN Goto("s_move_checkout") ELSE Exit(1, "create-failed")
    /\ UNCHANGED <<cmd, L, env>>

SyncMoveCheckout ==
    /\ Running /\ cmd = "sync" /\ pc = "s_move_checkout"
    /\ \E o \in checkoutBranch(git, baseBranch) :
          /\ git' = o.g
          /\ log' = Append(log, E("checkout", baseBranch, None, None, o.ok))
          /\ IF o.ok THEN Goto("s_move_reset") ELSE Exit(1, "checkout-failed")
    /\ UNCHANGED <<cmd, L, env>>

SyncMoveReset ==
    /\ Running /\ cmd = "sync" /\ pc = "s_move_reset"
    /\ \E o \in updateLocalBranch(git, baseBranch, syncSource.ref) :
          /\ git' = o.g
          /\ log' = Append(log, E(UpdateOp(git, baseBranch), baseBranch,
                                  syncSource.ref, None, o.ok))
    /\ Return("commits-moved-base-in-sync")
    /\ UNCHANGED <<cmd, L, env>>

\* args.yes, or the answer to the confirmation prompt
SyncConfirm ==
    /\ Running /\ cmd = "sync" /\ pc = "s_confirm"
    /\ \E ok \in BOOLEAN : IF ok THEN Goto("s_checkout") ELSE Exit(0, "declined")
    /\ UNCHANGED <<cmd, L, log, git, env>>

SyncCheckout ==
    /\ Running /\ cmd = "sync" /\ pc = "s_checkout"
    /\ \E o \in checkoutBranch(git, baseBranch) :
          /\ git' = o.g
          /\ log' = Append(log, E("checkout", baseBranch, None, None, o.ok))
          /\ IF o.ok THEN Goto("s_pull") ELSE Exit(1, "checkout-failed")
    /\ UNCHANGED <<cmd, L, env>>

\* a variant that pulls without --ff-only whatever was chosen
SyncPull_alwaysMerge ==
    /\ Running /\ cmd = "sync" /\ pc = "s_pull"
    /\ \E o \in pullBranch(git, syncSource.remote, baseBranch) :
          /\ git' = o.g
          /\ log' = Append(log, E("pull", <<syncSource.remote>>, baseBranch, None, o.ok))
          /\ IF ~o.ok THEN Exit(1, "pull-failed") ELSE Return("base-in-sync")
    /\ UNCHANGED <<cmd, L, env>>

SyncPull ==
    /\ Running /\ cmd = "sync" /\ pc = "s_pull"
    /\ \E o \in (IF L.allowMergeCommit
                 THEN pullBranch(git, syncSource.remote, baseBranch)
                 ELSE pullFastForwardOnly(git, syncSource.remote, baseBranch)) :
          /\ git' = o.g
          /\ log' = Append(log, E(IF L.allowMergeCommit THEN "pull" ELSE "pull-ff-only",
                                  <<syncSource.remote>>, baseBranch, None, o.ok))
          /\ IF ~o.ok THEN Exit(1, "pull-failed")
             ELSE IF /\ hasDevBranch(config.workflow) /\ config.role = "maintainer"
                     /\ getDivergence(o.g, config.mainBranch,
                                      RemoteRef(config.origin, config.mainBranch)).behind > 0
                  THEN GotoSay("s_main_checkout", "base-in-sync")
                  ELSE Return("base-in-sync")
    /\ UNCHANGED <<cmd, L, env>>

SyncMainCheckout ==
    /\ Running /\ cmd = "sync" /\ pc = "s_main_checkout"
    /\ \E o \in checkoutBranch(git, config.mainBranch) :
          /\ git' = o.g
          /\ log' = Append(log, E("checkout", config.mainBranch, None, None, o.ok))
          /\ IF o.ok THEN Goto("s_main_pull") ELSE Goto("s_main_return")
    /\ UNCHANGED <<cmd, L, env>>

SyncMainPull ==
    /\ Running /\ cmd = "sync" /\ pc = "s_main_pull"
    /\ \E o \in pullFastForwardOnly(git, config.origin, config.mainBranch) :
          /\ git' = o.g
          /\ log' = Append(log, E("pull-ff-only", <<config.origin>>, config.mainBranch,
                                  None, o.ok))
          /\ IF o.ok THEN GotoSay("s_main_return", "main-in-sync") ELSE Goto("s_main_return")
    /\ UNCHANGED <<cmd, L, env>>

SyncMainReturn ==
    /\ Running /\ cmd = "sync" /\ pc = "s_main_return"
    /\ \E o \in checkoutBranch(git, baseBranch) :
          /\ git' = o.g
          /\ log' = Append(log, E("checkout", baseBranch, None, None, o.ok))
    /\ Return("sync-done")
    /\ UNCHANGED <<cmd, L, env>>

----------------------------------------------------------------------------
(* contrib start (the second command of commands/sync.ts) *)

StartStart ==
    /\ Running /\ cmd = "start" /\ pc = "start"
    /\ L' = [L EXCEPT !.aret = "st_dirty"]
    /\ Goto("a_check")
    /\ UNCHANGED <<cmd, log, git, env>>

StartDirty ==
    /\ Running /\ cmd = "start" /\ pc = "st_dirty"
    /\ IF hasUncommittedChanges(git) THEN Exit(1, "uncommitted") ELSE Goto("st_name")
    /\ UNCHANGED <<cmd, L, log, git, env>>

\* the name given, suggested or typed, with its prefix; it is validated
\* before any git operation
StartName ==
    /\ Running /\ cmd = "start" /\ pc = "st_name"
    /\ \E branchName \in NameInputs :
          /\ L' = [L EXCEPT !.newBranchName = branchName]
          /\ IF ~isValidBranchName(branchName) THEN Exit(1, "invalid-branch-name")
             ELSE IF branchExists(git, branchName) THEN Exit(1, "branch-exists")
             ELSE Goto("st_fetch")
    /\ UNCHANGED <<cmd, log, git, env>>

StartFetch ==
    /\ Running /\ cmd = "start" /\ pc = "st_fetch"
    /\ \E o \in fetchRemote(git, syncSource.remote) :
          /\ git' = o.g
          /\ log' = Append(log, E("fetch", <<syncSource.remote>>, None, None, o.ok))
    /\ Goto("st_ref")
    /\ UNCHANGED <<cmd, L, env>>

\* a missing sync ref only gives a warning; local commits on the base branch
\* are discarded only after a confirmation
StartCheckRef ==
    /\ Running /\ cmd = "start" /\ pc = "st_ref"
    /\ LET currentBranch == getCurrentBranch(git) IN
       IF ~refExists(git, syncSource.ref)
       THEN /\ GotoSay("st_update", "remote-ref-not-found-using-local-base")
            /\ L' = [L EXCEPT !.currentBranch = currentBranch]
       ELSE IF /\ currentBranch = baseBranch
               /\ countCommitsAhead(git, baseBranch, syncSource.ref) > 0
            THEN \E proceed \in BOOLEAN :
                    IF proceed
                    THEN /\ Goto("st_update")
                         /\ L' = [L EXCEPT !.currentBranch = currentBranch,
                                           !.action = "DISCARD_CONFIRMED"]
                    ELSE /\ Exit(0, "aborted")
                         /\ L' = [L EXCEPT !.currentBranch = currentBranch]
            ELSE /\ Goto("st_update")
                 /\ L' = [L EXCEPT !.currentBranch = currentBranch]
    /\ UNCHANGED <<cmd, log, git, env>>

StartUpdate ==
    /\ Running /\ cmd = "start" /\ pc = "st_update"
    /\ \E o \in updateLocalBranch(git, baseBranch, syncSource.ref) :
          /\ git' = o.g
          /\ log' = Append(log, E(UpdateOp(git, baseBranch), baseBranch,
                                  syncSource.ref, None, o.ok))
          /\ IF o.ok THEN Goto("st_create")
             ELSE IF refExists(o.g, syncSource.ref) THEN Goto("st_create_remote")
             ELSE Exit(1, "update-base-failed")
    /\ UNCHANGED <<cmd, L, env>>

\* the base could not be updated: create the branch from the remote ref
StartCreateFromRemote ==
    /\ Running /\ cmd = "start" /\ pc = "st_create_remote"
    /\ \E o \in createBranch(git, L.newBranchName, syncSource.ref) :
          /\ git' = o.g
          /\ log' = Append(log, E("checkout-b", L.newBranchName, syncSource.ref, None, o.ok))
          /\ IF o.ok THEN Return("created-from-sync-ref") ELSE Exit(1, "create-failed")
    /\ UNCHANGED <<cmd, L, env>>

StartCreate ==
    /\ Running /\ cmd = "start" /\ pc = "st_create"
    /\ \E o \in createBranch(git, L.newBranchName, baseBranch) :
          /\ git' = o.g
          /\ log' = Append(log, E("checkout-b", L.newBranchName, baseBranch, None, o.ok))
          /\ IF o.ok THEN Return("created-from-base") ELSE Exit(1, "create-failed")
    /\ UNCHANGED <<cmd, L, env>>

----------------------------------------------------------------------------
(* contrib commit --group (commands/commit.ts).  An external command is in  *)
(* L.inflight from the moment it is started until it has exited.            *)

CommitStart ==
    /\ Running /\ cmd = "commit" /\ pc = "start"
    /\ L' = [L EXCEPT !.aret = "gc_start", !.stagedAtStart = git.staged]
    /\ Goto("a_check")
    /\ UNCHANGED <<cmd, log, git, env>>

\* Promise.all([checkCopilotAvailable(), getChangedFiles()])
GcStart ==
    /\ Running /\ cmd = "commit" /\ pc = "gc_start"
    /\ L' = [L EXCEPT !.inflight = {"copilot-check", "status"}]
    /\ Goto("gc_all")
    /\ UNCHANGED <<cmd, log, git, env>>

GcCopilotChecked ==
    /\ Running /\ cmd = "commit" /\ pc = "gc_all" /\ "copilot-check" \in L.inflight
    /\ \E copilotError \in BOOLEAN :
          L' = [L EXCEPT !.inflight = @ \ {"copilot-check"},
                         !.copilotError = copilotError]
    /\ Goto("gc_all")
    /\ UNCHANGED <<cmd, log, git, env>>

GcChangedFiles ==
    /\ Running /\ cmd = "commit" /\ pc = "gc_all" /\ "status" \in L.inflight
    /\ L' = [L EXCEPT !.inflight = @ \ {"status"},
                      !.changedFiles = getChangedFiles(git)]
    /\ Goto("gc_all")
    /\ UNCHANGED <<cmd, log, git, env>>

GcJoin ==
    /\ Running /\ cmd = "commit" /\ pc = "gc_all" /\ L.inflight = {}
    /\ IF L.copilotError THEN Exit(1, "ai-unavailable")
       ELSE IF L.changedFiles = {} THEN Exit(1, "no-changes")
       ELSE Goto("gc_generate")
    /\ UNCHANGED <<cmd, L, log, git, env>>

\* generateCommitGroups throws on an empty, unparsable or ill-formed answer
GcGenerate ==
    /\ Running /\ cmd = "commit" /\ pc = "gc_generate"
    /\ \/ /\ Exit(1, "ai-grouping-failed")
          /\ L' = L
       \/ \E groups \in AiGroupings :
             /\ L' = [L EXCEPT !.groups = groups]
             /\ IF Len(groups) = 0 THEN Exit(1, "no-groups") ELSE Goto("gc_validate")
    /\ UNCHANGED <<cmd, log, git, env>>

\* a variant that falls back to one group of all changed files
GcValidate_fallback ==
    /\ Running /\ cmd = "commit" /\ pc = "gc_validate"
    /\ LET stripped    == stripUnknownFiles(L.groups, L.changedFiles)
           validGroups == removeEmptyGroups(stripped)
           fallback    == <<CommitGroup(<<CHOOSE f \in L.changedFiles : TRUE>>, "m1")>>
       IN  /\ L' = [L EXCEPT !.groups = stripped,
                             !.validGroups = IF Len(validGroups) = 0 THEN fallback
                                             ELSE validGroups]
           /\ Goto("gc_summary")
    /\ UNCHANGED <<cmd, log, git, env>>

\* unknown files are removed from the groups (in place), empty groups are
\* dropped, and nothing left is fatal
GcValidate ==
    /\ Running /\ cmd = "commit" /\ pc = "gc_validate"
    /\ LET stripped    == stripUnknownFiles(L.groups, L.changedFiles)
           validGroups == removeEmptyGroups(stripped)
       IN  /\ L' = [L EXCEPT !.groups = stripped, !.validGroups = validGroups]
           /\ IF Len(validGroups) = 0 THEN Exit(1, "no-valid-groups")
              ELSE GotoSay("gc_summary", "groups-presented")
    /\ UNCHANGED <<cmd, log, git, env>>

\* 'Commit all' | 'Review each group' | 'Regenerate all messages' | 'Cancel'
GcSummary ==
    /\ Running /\ cmd = "commit" /\ pc = "gc_summary"
    /\ \E summaryAction \in {"Commit all", "Review each group",
                             "Regenerate all messages", "Cancel"} :
          IF summaryAction = "Cancel"
          THEN Exit(0, "group-commit-cancelled") /\ L' = L
          ELSE IF summaryAction = "Regenerate all messages"
          THEN /\ L.regens < MaxRegen
               /\ \E response \in AiRegenResponses :
                     IF response.kind = "throws"
                     THEN /\ L' = [L EXCEPT !.regens = @ + 1]
                          /\ GotoSay("gc_summary", "regenerate-failed")
                     ELSE /\ L' = [L EXCEPT !.regens = @ + 1,
                                     !.validGroups =
                                         regenerateAllGroupMessages(L.validGroups, response)]
                          /\ Goto("gc_summary")
          ELSE /\ L' = [L EXCEPT !.commitAll = (summaryAction = "Commit all"), !.idx = 1]
               /\ Goto("gc_loop")
    /\ UNCHANGED <<cmd, log, git, env>>

\* the head of the loop over validGroups
GcLoop ==
    /\ Running /\ cmd = "commit" /\ pc = "gc_loop"
    /\ IF L.idx > Len(L.validGroups)
       THEN /\ Exit(0, IF L.committed = 0 THEN "no-groups-committed" ELSE "groups-committed")
            /\ L' = L
       ELSE /\ L' = [L EXCEPT !.message = L.validGroups[L.idx].message]
            /\ IF L.commitAll THEN Goto("gc_stage") ELSE Goto("gc_review")
    /\ UNCHANGED <<cmd, log, git, env>>

\* 'Commit as-is' | 'Edit message and commit' | 'Regenerate message' | 'Skip'
GcReview ==
    /\ Running /\ cmd = "commit" /\ pc = "gc_review"
    /\ \E action \in {"Commit as-is", "Edit message and commit",
                      "Regenerate message", "Skip this group"},
          typed \in {"", "edited"}, newMsg \in {"", "m4"}, proceed \in BOOLEAN :
          LET message == IF action = "Edit message and commit" THEN typed ELSE L.message
          IN  IF action = "Skip this group"
              THEN /\ L' = [L EXCEPT !.idx = @ + 1]
                   /\ GotoSay("gc_loop", "skipped-group")
              ELSE IF action = "Regenerate message"
              THEN /\ L.regens < MaxRegen
                   /\ IF newMsg # ""
                      THEN L' = [L EXCEPT !.regens = @ + 1, !.message = newMsg,
                                          !.validGroups[L.idx].message = newMsg]
                      ELSE L' = [L EXCEPT !.regens = @ + 1]
                   /\ Goto("gc_review")
              ELSE IF message = ""
              THEN /\ L' = [L EXCEPT !.idx = @ + 1, !.message = message]
                   /\ GotoSay("gc_loop", "skipped-group")
              ELSE IF ~validateCommitMessage(message) /\ ~proceed
              THEN /\ L' = [L EXCEPT !.idx = @ + 1, !.message = message]
                   /\ GotoSay("gc_loop", "skipped-group")
              ELSE /\ L' = [L EXCEPT !.message = message]
                   /\ Goto("gc_stage")
    /\ UNCHANGED <<cmd, log, git, env>>

\* stageFiles(group.files) is started ...
GcStage ==
    /\ Running /\ cmd = "commit" /\ pc = "gc_stage"
    /\ L' = [L EXCEPT !.inflight = @ \cup {"add"}]
    /\ Goto("gc_stage_wait")
    /\ UNCHANGED <<cmd, log, git, env>>

\* ... and awaited
GcStageExit ==
    /\ Running /\ cmd = "commit" /\ pc = "gc_stage_wait"
    /\ \E o \in stageFiles(git, L.validGroups[L.idx].files) :
          /\ git' = o.g
          /\ log' = Append(log, E("add", L.validGroups[L.idx].files, None, None, o.ok))
          /\ IF o.ok
             THEN /\ L' = [L EXCEPT !.inflight = @ \ {"add"}]
                  /\ Goto("gc_commit")
             ELSE /\ L' = [L EXCEPT !.inflight = @ \ {"add"}, !.idx = @ + 1]
                  /\ GotoSay("gc_loop", "stage-failed")
    /\ UNCHANGED <<cmd, env>>

\* a variant of the batch loop that starts the commit without awaiting it
\* and goes on to the next group
GcCommit_noAwait ==
    /\ Running /\ cmd = "commit" /\ pc = "gc_commit"
    /\ L' = [L EXCEPT !.inflight = @ \cup {"commit"},
                      !.idx = IF L.commitAll THEN @ + 1 ELSE @]
    /\ IF L.commitAll /\ L.idx < Len(L.validGroups)
       THEN Goto("gc_stage") ELSE Goto("gc_commit_wait")
    /\ UNCHANGED <<cmd, log, git, env>>

\* commitWithMessage(message) is started ...
GcCommit ==
    /\ Running /\ cmd = "commit" /\ pc = "gc_commit"
    /\ L' = [L EXCEPT !.inflight = @ \cup {"commit"}]
    /\ Goto("gc_commit_wait")
    /\ UNCHANGED <<cmd, log, git, env>>

\* ... and awaited; a failed commit is followed by unstageFiles
GcCommitExit ==
    /\ Running /\ cmd = "commit" /\ pc = "gc_commit_wait"
    /\ \E o \in commitWithMessage(git, L.message) :
          /\ git' = o.g
          /\ log' = Append(log, E("commit", None, None, None, o.ok))
          /\ IF o.ok
             THEN /\ L' = [L EXCEPT !.inflight = @ \ {"commit"},
                                    !.committed = @ + 1, !.idx = @ + 1]
                  /\ GotoSay("gc_loop", "committed-group")
             ELSE /\ L' = [L EXCEPT !.inflight = @ \ {"commit"}]
                  /\ GotoSay("gc_unstage", "commit-failed")
    /\ UNCHANGED <<cmd, env>>

GcUnstage ==
    /\ Running /\ cmd = "commit" /\ pc = "gc_unstage"
    /\ L' = [L EXCEPT !.inflight = @ \cup {"reset-paths"}]
    /\ Goto("gc_unstage_wait")
    /\ UNCHANGED <<cmd, log, git, env>>

GcUnstageExit ==
    /\ Running /\ cmd = "commit" /\ pc = "gc_unstage_wait"
    /\ \E o \in unstageFiles(git, L.validGroups[L.idx].files) :
          /\ git' = o.g
          /\ log' = Append(log, E("reset-paths", L.validGroups[L.idx].files,
                                  None, None, o.ok))
    /\ L' = [L EXCEPT !.inflight = @ \ {"reset-paths"}, !.idx = @ + 1]
    /\ Goto("gc_loop")
    /\ UNCHANGED <<cmd, env>>

----------------------------------------------------------------------------
(* Initial states *)

Configs ==
    {[workflow |-> wr[1], role |-> wr[2], mainBranch |-> Main,
      devBranch |-> IF wr[1] = "github-flow" THEN None ELSE Dev,
      origin |-> "origin", upstream |-> "upstream"] :
        wr \in {<<"clean-flow", "maintainer">>, <<"clean-flow", "contributor">>,
                <<"github-flow", "maintainer">>, <<"git-flow", "maintainer">>}}

\* feature/a was cut from the base or from feature/b, and carries up to
\* MaxAhead commits that were never pushed
FeatCommits == {WithLocal(c, k) : c \in {<<0, 11>>, <<0, 12, 11>>}, k \in 0..MaxAhead}

\* upstream of feature/a (tr), the remote-tracking refs origin/feature/a (ofa)
\* and origin/feature/b (ofb), and feature/a on the server (sfa)
RefScenarios ==
    {[tr |-> t, ofa |-> a.l, sfa |-> a.s, ofb |-> None] :
        t \in {None, RemoteRef("origin", FeatA), RemoteRef("origin", Dev)},
        a \in {[l |-> None, s |-> None], [l |-> <<0, 11>>, s |-> None],
               [l |-> <<0, 11>>, s |-> <<0, 11>>]}}
    \cup
    {[tr |-> RemoteRef("origin", FeatB), ofa |-> <<0, 11>>, sfa |-> <<0, 11>>, ofb |-> b] :
        b \in {None, <<0, 12>>, <<9>>}}

\* the base branch as last fetched (rdev), as it is on the server (sdev), and
\* whether the remotes can be reached
BaseScenarios ==
    {[rdev |-> <<0>>, sdev |-> BaseHist(k), net |-> n] : k \in 0..MaxBase, n \in BOOLEAN}
    \cup {[rdev |-> None, sdev |-> None, net |-> TRUE]}

WorkScenarios ==
    {[dirty |-> FALSE, files |-> {}], [dirty |-> TRUE, files |-> {}],
     [dirty |-> FALSE, files |-> {"index.lock"}],
     [dirty |-> FALSE, files |-> {"rebase-merge"}]}

HeadScenarios ==
    {[head |-> FeatA, dev |-> <<0>>], [head |-> Dev, dev |-> <<0>>],
     [head |-> Dev, dev |-> <<0, 31>>], [head |-> FeatA, dev |-> <<0, 31>>],
     [head |-> Main, dev |-> <<0, 31>>]}

GhScenarios ==
    {[gh |-> "ok", merged |-> {FeatA}], [gh |-> "ok", merged |-> {}],
     [gh |-> "missing", merged |-> {FeatA}], [gh |-> "unauth", merged |-> {FeatA}]}

Repo(hs, feat, rs, bs, ws) ==
    [head     |-> hs.head,
     branches |-> [b \in LocalNames |->
                      IF b = Main THEN <<0>>
                      ELSE IF b = Dev THEN hs.dev
                      ELSE IF b = FeatA THEN feat
                      ELSE IF b = FeatB THEN <<0, 12>>
                      ELSE IF b = Rel /\ config.workflow = "git-flow" THEN <<0>>
                      ELSE None],
     tracking |-> [b \in LocalNames |->
                      IF b = Main THEN RemoteRef("origin", Main)
                      ELSE IF b = Dev THEN RemoteRef("origin", Dev)
                      ELSE IF b = FeatA THEN rs.tr
                      ELSE None],
     remoteRefs |-> [r \in RemoteNames |->
                      IF r[2] = "main" THEN <<0>>
                      ELSE IF r[2] = "dev" THEN bs.rdev
                      ELSE IF r = RemoteRef("origin", FeatA) THEN rs.ofa
                      ELSE IF r = RemoteRef("origin", FeatB) THEN rs.ofb
                      ELSE None],
     dirty    |-> ws.dirty,
     files    |-> ws.files,
     changed  |-> {},
     staged   |-> {},
     made     |-> <<>>]

Server(rs, bs, smain) ==
    [r \in RemoteNames |->
        IF r[2] = "main" THEN smain
        ELSE IF r[2] = "dev" THEN bs.sdev
        ELSE IF r = RemoteRef("origin", FeatA) THEN rs.sfa
        ELSE IF r = RemoteRef("origin", FeatB) /\ rs.ofb # None THEN rs.ofb
        ELSE None]

DefaultRefs == [tr |-> RemoteRef("origin", FeatA), ofa |-> <<0, 11>>,
                sfa |-> <<0, 11>>, ofb |-> None]

InitLifecycle ==
    /\ config \in Configs
    /\ \E hs \in HeadScenarios \ {[head |-> Main, dev |-> <<0, 31>>]},
          feat \in FeatCommits, rs \in RefScenarios,
          bs \in BaseScenarios, ws \in WorkScenarios :
          /\ git = Repo(hs, feat, rs, bs, ws)
          /\ server = Server(rs, bs, <<0>>)
          /\ netOk = bs.net
    /\ \E s \in GhScenarios : gh = s.gh /\ mergedPRs = s.merged
    /\ shallow = FALSE
    /\ gitDirOk = TRUE

InitSync ==
    /\ config \in Configs
    /\ \E hs \in HeadScenarios, bs \in BaseScenarios, ws \in WorkScenarios,
          smain \in {<<0>>, <<0, 41>>} :
          /\ git = Repo(hs, <<0, 11>>, DefaultRefs, bs, ws)
          /\ server = Server(DefaultRefs, bs, smain)
          /\ netOk = bs.net
    /\ gh = "ok" /\ mergedPRs = {}
    /\ shallow \in BOOLEAN
    /\ gitDirOk \in BOOLEAN

\* commit --group : some of the paths have changes, and the change of b may
\* already be in the index; a lock file may be there
InitCommit ==
    /\ config \in {c \in Configs : c.workflow = "clean-flow" /\ c.role = "maintainer"}
    /\ \E changed \in SUBSET Files, lock \in BOOLEAN,
          staged \in {{}, {"b"}} :
          /\ staged \subseteq changed
          /\ git = [Repo([head |-> FeatA, dev |-> <<0>>], <<0, 11>>, DefaultRefs,
                         [rdev |-> <<0>>, sdev |-> <<0>>, net |-> TRUE],
                         [dirty |-> changed # {},
                          files |-> IF lock THEN {"index.lock"} ELSE {}])
                    EXCEPT !.changed = changed, !.staged = staged]
          /\ gitDirOk \in (IF lock THEN BOOLEAN ELSE {TRUE})
    /\ server = Server(DefaultRefs, [rdev |-> <<0>>, sdev |-> <<0>>, net |-> TRUE], <<0>>)
    /\ netOk = TRUE
    /\ gh = "ok" /\ mergedPRs = {}
    /\ shallow = FALSE

Init ==
    /\ cmd \in {"update", "submit", "clean", "sync", "start", "commit"}
    /\ pc = "start"
    /\ exitCode = -1
    /\ L = L0
    /\ log = <<>>
    /\ out = {}
    /\ IF cmd \in {"sync", "start"} THEN InitSync
       ELSE IF cmd = "commit" THEN InitCommit
       ELSE InitLifecycle

Next ==
    \/ AssertCheck \/ AssertShallow
    \/ DrsUpstream \/ DrsHash \/ DrsMergeBaseUpstream \/ DrsMergeBaseSync \/ DrsDecide
    \/ UpdateStart \/ UpdateProtectedFetch \/ UpdateProtectedChoose
    \/ UpdateProtectedCreate \/ UpdateProtectedReset \/ UpdateCheckMergedPR
    \/ UpdateFetch \/ UpdateBase \/ UpdateRebase \/ UpdateConflict
    \/ StaleInspect \/ StaleChoose \/ SaveRename \/ SaveUnsetUpstream \/ SaveFetch
    \/ SaveRebaseStale \/ SaveRebase
    \/ DiscardFetch \/ DiscardCheckout \/ DiscardUpdate \/ DiscardDelete
    \/ SubmitStart
    \/ CleanPrune \/ CleanDetect \/ CleanAskMerged \/ CleanAskGone \/ CleanLoop
    \/ CleanAfterHandle \/ CleanDelete
    \/ HInspect \/ HChoose \/ HRename \/ HSaveFetch \/ HSaveRebase
    \/ HSaveCheckout \/ HSaveUpdate \/ HSwitchFetch \/ HSwitchCheckout \/ HSwitchUpdate
    \/ SyncStart \/ SyncDirty \/ SyncFetch \/ SyncFetchOrigin \/ SyncCheckRef
    \/ SyncChoose \/ SyncMoveCreate \/ SyncMoveCheckout \/ SyncMoveReset
    \/ SyncConfirm \/ SyncCheckout \/ SyncPull
    \/ SyncMainCheckout \/ SyncMainPull \/ SyncMainReturn
    \/ StartStart \/ StartDirty \/ StartName \/ StartFetch \/ StartCheckRef
    \/ StartUpdate \/ StartCreateFromRemote \/ StartCreate
    \/ CommitStart \/ GcStart \/ GcCopilotChecked \/ GcChangedFiles \/ GcJoin
    \/ GcGenerate \/ GcValidate \/ GcSummary \/ GcLoop \/ GcReview
    \/ GcStage \/ GcStageExit \/ GcCommit \/ GcCommitExit
    \/ GcUnstage \/ GcUnstageExit

Spec == Init /\ [][Next]_vars

----------------------------------------------------------------------------
(* contrib commit --group on its own *)

InitGroup ==
    /\ cmd = "commit"
    /\ pc = "start"
    /\ exitCode = -1
    /\ L = L0
    /\ log = <<>>
    /\ out = {}
    /\ InitCommit

NextGroup ==
    \/ AssertCheck \/ AssertShallow
    \/ CommitStart \/ GcStart \/ GcCopilotChecked \/ GcChangedFiles \/ GcJoin
    \/ GcGenerate \/ GcValidate \/ GcSummary \/ GcLoop \/ GcReview
    \/ GcStage \/ GcStageExit \/ GcCommit \/ GcCommitExit
    \/ GcUnstage \/ GcUnstageExit

SpecGroup == InitGroup /\ [][NextGroup]_vars

----------------------------------------------------------------------------
(* determineRebaseStrategy on its own: called for the checked-out branch    *)
(* with a sync ref                                                          *)

StrategyRefs ==
    RefScenarios \cup
    {[tr |-> Dev, ofa |-> <<0, 11>>, sfa |-> <<0, 11>>, ofb |-> None]}

InitStrategy ==
    /\ cmd = "strategy"
    /\ pc = "drs_upstream"
    /\ exitCode = -1
    /\ log = <<>>
    /\ out = {}
    /\ config \in {c \in Configs : c.workflow = "clean-flow"}
    /\ \E feat \in FeatCommits, rs \in StrategyRefs, bs \in BaseScenarios :
          /\ git = Repo([head |-> FeatA, dev |-> <<0>>], feat, rs, bs,
                        [dirty |-> FALSE, files |-> {}])
          /\ server = Server(rs, bs, <<0>>)
          /\ netOk = bs.net
    /\ L = [L0 EXCEPT !.currentBranch = FeatA, !.drsBranch = FeatA,
                      !.drsSyncRef = syncSource.ref, !.ret = "drs_done"]
    /\ gh = "ok" /\ mergedPRs = {}
    /\ shallow = FALSE
    /\ gitDirOk = TRUE

\* the resolver is called once more for the same branch on the same
\* repository; what the first call returned is kept for comparison
DrsRepeat ==
    /\ Running /\ cmd = "strategy" /\ pc = "drs_done"
    /\ L' = [CallDrs(L.drsBranch, L.drsSyncRef, "drs_again")
               EXCEPT !.firstStrategy = L.strategy, !.firstOrder = L.mbFirst,
                      !.mbFirst = ""]
    /\ Goto("drs_upstream")
    /\ UNCHANGED <<cmd, log, git, env>>

NextStrategy ==
    \/ DrsUpstream \/ DrsHash \/ DrsMergeBaseUpstream \/ DrsMergeBaseSync \/ DrsDecide
    \/ DrsRepeat

SpecStrategy == InitStrategy /\ [][NextStrategy]_vars

----------------------------------------------------------------------------
(* assertCleanGitState on its own, over every combination of marker files *)

InitGuard ==
    /\ cmd = "guard"
    /\ pc = "a_check"
    /\ exitCode = -1
    /\ log = <<>>
    /\ out = {}
    /\ config \in {c \in Configs : c.workflow = "clean-flow" /\ c.role = "maintainer"}
    /\ \E fs \in SUBSET MarkerFiles :
          git = Repo([head |-> Dev, dev |-> <<0>>], <<0, 11>>, DefaultRefs,
                     [rdev |-> <<0>>, sdev |-> <<0>>, net |-> TRUE],
                     [dirty |-> FALSE, files |-> fs])
    /\ server = Server(DefaultRefs, [rdev |-> <<0>>, sdev |-> <<0>>, net |-> TRUE], <<0>>)
    /\ netOk = TRUE
    /\ L = [L0 EXCEPT !.aret = "guard_done"]
    /\ gh = "ok" /\ mergedPRs = {}
    /\ shallow \in BOOLEAN
    /\ gitDirOk \in BOOLEAN

NextGuard == AssertCheck \/ AssertShallow

SpecGuard == InitGuard /\ [][NextGuard]_vars

----------------------------------------------------------------------------
(* The WorkflowResolver on its own: its three functions applied to a        *)
(* configuration and a branch name                                          *)

Master  == <<"master">>
Develop == <<"develop">>

\* every workflow and role; devBranch is optional in ContributeConfig
WorkflowConfigs ==
    {[workflow |-> w, role |-> r, mainBranch |-> m, devBranch |-> d,
      origin |-> "origin", upstream |-> "upstream"] :
        w \in {"clean-flow", "github-flow", "git-flow"},
        r \in {"maintainer", "contributor"},
        m \in {Main, Master},
        d \in {None, Dev, Develop}}

\* "release" and "releases/1" look like a protected prefix without having it
BranchInputs ==
    {Main, Master, Dev, Develop, FeatA, Rel, <<"hotfix", "urgent">>,
     <<"release">>, <<"releases", "1">>, <<"release", "">>}

CallIsBranchProtected ==
    /\ Running /\ pc = "wf_protected"
    /\ L' = [L EXCEPT !.isProtected = isBranchProtected(L.branch, config)]
    /\ Goto("wf_base")
    /\ UNCHANGED <<cmd, log, git, env>>

CallGetBaseBranch ==
    /\ Running /\ pc = "wf_base"
    /\ L' = [L EXCEPT !.baseResult = getBaseBranch(config)]
    /\ Goto("wf_sync")
    /\ UNCHANGED <<cmd, log, git, env>>

CallGetSyncSource ==
    /\ Running /\ pc = "wf_sync"
    /\ L' = [L EXCEPT !.source = getSyncSource(config)]
    /\ Goto("wf_done")
    /\ UNCHANGED <<cmd, log, git, env>>

InitWorkflow ==
    /\ cmd = "workflow"
    /\ pc = "wf_protected"
    /\ exitCode = -1
    /\ log = <<>>
    /\ out = {}
    /\ config \in WorkflowConfigs
    /\ \E b \in BranchInputs : L = [L0 EXCEPT !.branch = b]
    /\ git = Repo([head |-> Dev, dev |-> <<0>>], <<0, 11>>, DefaultRefs,
                  [rdev |-> <<0>>, sdev |-> <<0>>, net |-> TRUE],
                  [dirty |-> FALSE, files |-> {}])
    /\ server = Server(DefaultRefs, [rdev |-> <<0>>, sdev |-> <<0>>, net |-> TRUE], <<0>>)
    /\ netOk = TRUE
    /\ gh = "ok" /\ mergedPRs = {}
    /\ shallow = FALSE
    /\ gitDirOk = TRUE

\* the branch getBaseBranch returned is asked about in turn
CallIsBaseProtected ==
    /\ Running /\ pc = "wf_done"
    /\ L' = [L EXCEPT !.baseProtected = isBranchProtected(L.baseResult, config),
                      !.baseListed = Includes(getProtectedBranches(config), L.baseResult)]
    /\ Goto("wf_base_checked")
    /\ UNCHANGED <<cmd, log, git, env>>

NextWorkflow ==
    \/ CallIsBranchProtected \/ CallGetBaseBranch \/ CallGetSyncSource
    \/ CallIsBaseProtected

SpecWorkflow == InitWorkflow /\ [][NextWorkflow]_vars

----------------------------------------------------------------------------
(* getDivergence on its own: called with two ref names on a repository      *)

\* refs that resolve in some repositories and not in others, and one that
\* never does
DivergenceRefs ==
    {Dev, FeatA, FeatB, NewN, <<"HEAD">>, RemoteRef("origin", Dev),
     RemoteRef("origin", FeatA), RemoteRef("origin", FeatB)}

CallGetDivergence ==
    /\ Running /\ pc = "gd_call"
    /\ L' = [L EXCEPT !.div = getDivergence(git, L.branch, L.base)]
    /\ Goto("gd_done")
    /\ UNCHANGED <<cmd, log, git, env>>

InitDivergence ==
    /\ cmd = "divergence"
    /\ pc = "gd_call"
    /\ exitCode = -1
    /\ log = <<>>
    /\ out = {}
    /\ config \in {c \in Configs : c.workflow = "clean-flow" /\ c.role = "maintainer"}
    /\ \E hs \in HeadScenarios, feat \in FeatCommits, rs \in RefScenarios,
          bs \in {b \in BaseScenarios : b.net} :
          /\ git = Repo(hs, feat, rs, bs, [dirty |-> FALSE, files |-> {}])
          /\ server = Server(rs, bs, <<0>>)
    /\ \E b \in DivergenceRefs, a \in DivergenceRefs :
          L = [L0 EXCEPT !.branch = b, !.base = a]
    /\ netOk = TRUE
    /\ gh = "ok" /\ mergedPRs = {}
    /\ shallow = FALSE
    /\ gitDirOk = TRUE

NextDivergence == CallGetDivergence

SpecDivergence == InitDivergence /\ [][NextDivergence]_vars

----------------------------------------------------------------------------
(* Properties of determineRebaseStrategy.  The facts they speak of are read *)
(* from the repository, which the resolver does not change.                 *)

StrategyDone == pc = "drs_done"

HeadUpstream == git.tracking[git.head]

UpstreamResolves == HeadUpstream # None /\ Resolve(git, HeadUpstream) # None

\* the branch an upstream ref names: the ref without its remote segment
NamedBranch(ref) == IF Len(ref) > 1 THEN SubSeq(ref, 2, Len(ref)) ELSE ref

TracksOtherBranch == UpstreamResolves /\ NamedBranch(HeadUpstream) # L.drsBranch

ForkUpstream == getMergeBase(git, <<"HEAD">>, HeadUpstream)
ForkSync     == getMergeBase(git, <<"HEAD">>, L.drsSyncRef)

\* C2: when the upstream resolves and names another branch, and
\* mergeBase(HEAD, upstreamRef) exists and differs from mergeBase(HEAD, syncRef),
\* determineRebaseStrategy returns Onto with exactly mergeBase(HEAD, upstreamRef)
\* as old base.
C2_OntoForkFromUpstream ==
    (StrategyDone /\ TracksOtherBranch /\ ForkUpstream # None /\ ForkUpstream # ForkSync)
        => L.strategy = Onto(ForkUpstream)

\* the scenario of the specification: both fork points exist and differ
C2_Witness ==
    /\ StrategyDone /\ TracksOtherBranch
    /\ ForkUpstream # None /\ ForkSync # None /\ ForkUpstream # ForkSync
    /\ L.strategy.strategy = "onto"

\* C3: when the upstream resolves and names another branch, and both merge
\* bases exist and are equal, determineRebaseStrategy returns Plain.
C3_PlainWhenForksEqual ==
    (StrategyDone /\ TracksOtherBranch /\ ForkUpstream # None /\ ForkSync # None
        /\ ForkUpstream = ForkSync)
        => L.strategy = Plain

C3_Witness ==
    /\ StrategyDone /\ TracksOtherBranch
    /\ ForkUpstream # None /\ ForkUpstream = ForkSync
    /\ L.mbU = "idle" /\ L.forkFromUpstream = ForkUpstream
    /\ L.strategy = Plain

\* C4: determineRebaseStrategy returns Plain whenever the branch has no
\* upstream, or the upstream no longer resolves to a commit, or the upstream
\* without its remote segment is the current branch, whatever the merge bases.
C4_PlainWithoutForeignUpstream ==
    (StrategyDone /\ (HeadUpstream = None \/ ~UpstreamResolves
                        \/ NamedBranch(HeadUpstream) = L.drsBranch))
        => L.strategy = Plain

\* the branch tracks its own remote copy although the merge bases differ
C4_Witness ==
    /\ StrategyDone /\ UpstreamResolves
    /\ NamedBranch(HeadUpstream) = L.drsBranch
    /\ ForkUpstream # ForkSync
    /\ L.strategy = Plain

\* C27: determineRebaseStrategy is deterministic: with identical results of
\* the upstream, commit-hash and merge-base queries a repeated call returns the
\* same variant and the same oldBase, whatever the order in which the two
\* concurrently issued merge-base queries complete.
C27_RepeatedCallSameStrategy ==
    pc = "drs_again" => L.strategy = L.firstStrategy

\* the merge-base queries ended in one order in the first call and in the
\* other order in the second, and both calls returned the same onto
C27_Witness ==
    /\ pc = "drs_again"
    /\ L.firstOrder = "upstream" /\ L.mbFirst = "sync"
    /\ L.strategy.strategy = "onto" /\ L.strategy = L.firstStrategy

\* one of the read-only queries of the resolver failed
SomeQueryFailed ==
    \/ HeadUpstream = None
    \/ ~UpstreamResolves
    \/ (TracksOtherBranch /\ (ForkUpstream = None \/ ForkSync = None))

\* C5: when a read-only query of determineRebaseStrategy fails (upstream
\* lookup, upstream commit, either merge base), the decision is Plain and
\* never Onto.
C5_FailedQueryGivesPlain ==
    (StrategyDone /\ SomeQueryFailed) => L.strategy = Plain

\* mergeBase(HEAD, syncRef) failed while mergeBase(HEAD, upstreamRef) exists
C5_Witness ==
    /\ StrategyDone /\ TracksOtherBranch
    /\ ForkSync = None /\ ForkUpstream # None

----------------------------------------------------------------------------
(* Properties of the commands *)

\* the git commands that change branches, HEAD, the work tree or the
\* upstream configuration
MutatingOps ==
    {"checkout", "checkout-b", "reset-hard", "branch-f", "rebase", "rebase-onto",
     "rename", "unset-upstream", "branch-d", "branch-D", "pull", "pull-ff-only",
     "add", "commit", "reset-paths"}

\* the commits of c that were made locally and never pushed
LocalOnly(c) == SelectSeq(c, LAMBDA p : p > 20 /\ p < 40)

\* the NoWork decision has just been taken for the current branch
NoWorkDecided == L.noWork /\ pc \in {"discard_fetch", "h_switch_fetch"}

\* C1: whenever update, submit or clean takes the NoWork path (switches away
\* from the current branch and deletes it without offering Save / Discard /
\* Cancel), that branch has no uncommitted change and no commit that is
\* absent from its remote counterpart.
C1_NoWorkLosesNothing ==
    NoWorkDecided =>
        /\ ~git.dirty
        /\ LocalOnly(git.branches[L.currentBranch]) = <<>>

\* the NoWork path taken for a branch that is fully on its remote counterpart
C1_Witness ==
    /\ NoWorkDecided /\ ~git.dirty
    /\ Reachable(git.branches[L.currentBranch],
                 Resolve(git, RemoteRef(config.origin, L.currentBranch)))

\* C6: in every command that issues more than one git mutation the check of
\* assertCleanGitState for a lock file or an operation in progress has
\* completed before the first mutating git command.
C6_GuardBeforeFirstMutation ==
    \A i \in 1..Len(log) :
        log[i].op \in MutatingOps =>
            \E j \in 1..(i - 1) : log[j].op = "rev-parse-git-dir"

\* sync does run the guard first
C6_Witness ==
    /\ cmd = "sync" /\ pc = "done"
    /\ \E i \in 1..Len(log) : log[i].op \in MutatingOps
    /\ log[1].op = "rev-parse-git-dir"

\* C8: after Cancel ("Skip this branch" in clean) at the Save / Discard /
\* Cancel decision no rename, checkout, reset, rebase, upstream change or
\* branch deletion is issued for that branch, and the checked-out branch is
\* the one from before the decision.
C8_CancelChangesNothing ==
    L.action = "CANCEL" =>
        /\ git.head = L.promptHead
        /\ \A i \in (L.promptLog + 1)..Len(log) :
              log[i].op \in MutatingOps =>
                  /\ log[i].op \in {"branch-d", "branch-D"}
                  /\ log[i].a # L.promptHead

C8_Witness ==
    /\ L.action = "CANCEL" /\ pc = "done"
    /\ L.promptHead = FeatA /\ git.head = FeatA
    /\ git.dirty

\* C9: in every Save path (update, submit, clean) the stale upstream of the
\* renamed branch is cleared after the rename has succeeded and before the
\* rebase onto the sync target is issued.
C9_UpstreamClearedBeforeRebase ==
    L.action = "SAVE_NEW_BRANCH" =>
        \A i \in 1..Len(log) :
            log[i].op \in {"rebase", "rebase-onto"} =>
                \E r \in 1..(i - 1), u \in 1..(i - 1) :
                    /\ r < u
                    /\ log[r].op = "rename" /\ log[r].ok
                    /\ log[u].op = "unset-upstream"

\* update and submit do clear it
C9_Witness ==
    /\ L.action = "SAVE_NEW_BRANCH" /\ pc = "done" /\ cmd \in {"update", "submit"}
    /\ \E u \in 1..Len(log) : log[u].op = "unset-upstream" /\ log[u].ok
    /\ log[Len(log)].op \in {"rebase", "rebase-onto"}
    /\ git.tracking[git.head] = None

\* what determineRebaseStrategy computes for the checked-out branch of g
StrategyOf(g, branch, syncRef) ==
    LET u  == g.tracking[g.head]
        fu == getMergeBase(g, <<"HEAD">>, u)
        fs == getMergeBase(g, <<"HEAD">>, syncRef)
    IN  IF u = None \/ Resolve(g, u) = None \/ NamedBranch(u) = branch THEN Plain
        ELSE IF fu # None /\ fu = fs THEN Plain
        ELSE IF fu # None THEN Onto(fu)
        ELSE Plain

\* the rebase of a Save path is being issued
SaveRebaseStep ==
    /\ pc \in {"save_rebase_stale", "save_rebase", "h_save_rebase"}
    /\ pc' # pc

\* C10: in the Save path the rebase applied to the renamed branch is the one
\* determineRebaseStrategy computes against the sync target: Plain gives
\* `rebase syncRef`, Onto(b) gives `rebase --onto syncRef b`, and no other old
\* base is used.
C10_SaveRebaseIsTheComputedStrategy ==
    [][SaveRebaseStep =>
        LET st == StrategyOf(git, getCurrentBranch(git), syncSource.ref)
            e  == log'[Len(log')]
        IN  /\ e.a = syncSource.ref
            /\ IF st.strategy = "onto"
               THEN e.op = "rebase-onto" /\ e.h = st.ontoOldBase
               ELSE e.op = "rebase"]_vars

\* update replayed from the captured stale upstream commit although the
\* renamed branch has no upstream any more
C10_Witness ==
    /\ cmd = "update" /\ pc = "done" /\ L.action = "SAVE_NEW_BRANCH"
    /\ L.staleUpstreamHash # None
    /\ log[Len(log)].op = "rebase-onto" /\ log[Len(log)].h = L.staleUpstreamHash
    /\ git.tracking[git.head] = None

RebaseOps == {"rebase", "rebase-onto"}

\* in a Save path the rename at log[i] succeeded and the rebase at log[j]
\* exited non-zero
SaveRebaseFailedAt(i, j) ==
    /\ L.action = "SAVE_NEW_BRANCH"
    /\ i < j
    /\ log[i].op = "rename" /\ log[i].ok
    /\ log[j].op \in RebaseOps /\ ~log[j].ok

ConflictReports ==
    {"rebase-conflicts-continue-manually", "rebase-conflicts-resolve-after-cleanup"}

\* C11: if the rebase of the Save path fails after the rename succeeded, the
\* rename stays applied (the commits are under the new branch name and the
\* old name is gone), nothing is rolled back (no rename back, no deletion of
\* the new branch) and the failure is reported with the instruction to
\* continue the rebase by hand.
C11_RenameKeptOnRebaseFailure ==
    \A i \in 1..Len(log), j \in 1..Len(log) :
        SaveRebaseFailedAt(i, j) =>
            /\ git.branches[log[i].b] = L.renamedTip
            /\ git.branches[log[i].a] = None
            /\ \A k \in (j + 1)..Len(log) :
                  /\ log[k].op # "rename"
                  /\ log[k].op \in {"branch-d", "branch-D"} => log[k].a # log[i].b
            /\ out \cap ConflictReports # {}

\* the rebase of a saved branch stopped on a conflict
C11_Witness ==
    /\ \E i \in 1..Len(log), j \in 1..Len(log) : SaveRebaseFailedAt(i, j)
    /\ "rebase-merge" \in git.files
    /\ git.branches[NewN] = L.renamedTip /\ L.renamedTip # None
    /\ pc = "done"

\* C15: once a rebase has exited non-zero the tool issues no further
\* repository mutation of its own; it only reports, and AI guidance is shown
\* but never applied.
C15_NoMutationAfterFailedRebase ==
    \A j \in 1..Len(log) :
        (log[j].op \in RebaseOps /\ ~log[j].ok) =>
            \A k \in (j + 1)..Len(log) : log[k].op \notin MutatingOps

\* update stops on the conflict, with the AI guidance displayed
C15_Witness ==
    /\ cmd = "update" /\ pc = "exit" /\ exitCode = 1
    /\ "ai-conflict-guidance" \in out
    /\ log[Len(log)].op \in RebaseOps /\ ~log[Len(log)].ok
    /\ "rebase-merge" \in git.files

DeleteOps == {"branch-d", "branch-D"}

\* C12: in every run of clean, under every workflow, no branch protected by
\* exact name or by prefix (git-flow: release/..., hotfix/...) is a deletion
\* candidate or is passed to `branch -d` / `branch -D`.
C12_ProtectedNeverDeleted ==
    cmd = "clean" =>
        /\ \A i \in 1..Len(L.mergedCandidates) :
              ~isBranchProtected(L.mergedCandidates[i], config)
        /\ \A i \in 1..Len(L.goneCandidates) :
              ~isBranchProtected(L.goneCandidates[i], config)
        /\ \A i \in 1..Len(log) :
              log[i].op \in DeleteOps => ~isBranchProtected(log[i].a, config)

\* main is merged into the base branch, is kept out of the candidates, and
\* clean deleted an unprotected branch
C12_Witness ==
    /\ cmd = "clean" /\ pc = "done"
    /\ Includes(getMergedBranches(git, baseBranch), Main)
    /\ ~Includes(L.mergedCandidates, Main)
    /\ \E i \in 1..Len(log) : log[i].op \in DeleteOps /\ log[i].ok
    /\ \A i \in 1..Len(log) :
          log[i].op \in DeleteOps => ~isBranchProtected(log[i].a, config)

\* C13: every branch that clean deletes because its tracking ref is gone or
\* its pull request is merged goes through the force delete (-D); the plain
\* delete (-d) is only used for branches git listed as merged into the base.
C13_StaleBranchesForceDeleted ==
    cmd = "clean" =>
        \A i \in 1..Len(log) :
            /\ (log[i].op \in DeleteOps /\ Includes(L.goneCandidates, log[i].a))
                   => log[i].op = "branch-D"
            /\ log[i].op = "branch-d" => Includes(L.mergedCandidates, log[i].a)

\* feature/a has a commit that is not in the base (squash-merged), its
\* tracking ref is gone, and clean removed it with -D
C13_Witness ==
    /\ cmd = "clean" /\ pc = "done"
    /\ Includes(L.goneCandidates, FeatA) /\ ~Includes(L.mergedCandidates, FeatA)
    /\ \E i \in 1..Len(log) :
          log[i].op = "branch-D" /\ log[i].a = FeatA /\ log[i].ok
    /\ git.branches[FeatA] = None

\* the configured sync ref is neither on the remote nor known locally
SyncRefMissing ==
    server[syncSource.ref] = None /\ git.remoteRefs[syncSource.ref] = None

\* C14: when the configured sync ref does not exist on the remote, sync, start
\* and update fail without having issued a checkout, reset, pull, rebase,
\* branch creation, rename or deletion.
C14_MissingSyncRefNoMutation ==
    (cmd \in {"sync", "start", "update"} /\ SyncRefMissing) =>
        /\ \A i \in 1..Len(log) : log[i].op \notin MutatingOps
        /\ pc = "done" => L.action \in {"CANCEL", "CANCEL_STAY", "CANCEL_SYNC"}

\* sync stops at its check of the sync ref, before its first mutation
C14_Witness ==
    /\ cmd = "sync" /\ SyncRefMissing
    /\ pc = "exit" /\ exitCode = 1 /\ "remote-ref-missing" \in out
    /\ \A i \in 1..Len(log) : log[i].op \notin MutatingOps
    /\ \E i \in 1..Len(log) : log[i].op = "fetch" /\ log[i].ok

\* the external commands that have been started and have not exited yet
InFlight ==
    L.inflight
      \cup (IF L.mbU = "pending" THEN {"merge-base-upstream"} ELSE {})
      \cup (IF L.mbS = "pending" THEN {"merge-base-sync"} ELSE {})

\* C16: within one command run no two repository-mutating git operations are
\* in flight at the same time: whenever more than one command is in flight
\* all of them are read-only queries, and a mutating command runs to its exit
\* with nothing else in flight.
C16_MutationsSequential ==
    [][/\ Cardinality(InFlight') > 1 => InFlight' \cap MutatingOps = {}
       /\ (Len(log') > Len(log) /\ log'[Len(log')].op \in MutatingOps)
              => InFlight \subseteq {log'[Len(log')].op}]_vars

\* a commit is in flight on its own, after the commit of an earlier group
\* has exited
C16_Witness ==
    /\ cmd = "commit"
    /\ InFlight = {"commit"}
    /\ Len(git.made) = 1
    /\ \E i \in 1..Len(log) : log[i].op = "add" /\ log[i].ok

----------------------------------------------------------------------------
(* Properties of assertCleanGitState *)

LockOrInProgress == git.files # {}

\* C7: assertCleanGitState ends the command with a failure, before any
\* further git command, if index.lock exists or a rebase, merge, cherry-pick
\* or bisect is in progress; a shallow repository only gives a warning and
\* the command continues.
C7_GuardStopsOnLockOrInProgress ==
    pc # "a_check" =>
        IF LockOrInProgress
        THEN pc = "exit" /\ exitCode = 1 /\ Len(log) = 1
        ELSE pc = "a_shallow" \/
             (pc = "guard_done" /\ Running /\ (shallow <=> "shallow-warning" \in out))

\* a lock file is there and the guard let the command go on
C7_Witness ==
    /\ pc = "guard_done" /\ "index.lock" \in git.files /\ ~gitDirOk

\* the guard has made its check and let the command go on
GuardLetProceed == pc \in {"a_shallow", "guard_done"} /\ Running

\* C35: assertCleanGitState lets a command proceed only if the absence of a
\* lock file and of an in-progress operation was actually observed: the git
\* directory was determined and neither index.lock nor a marker of an
\* operation in progress is in it; a git directory that cannot be determined
\* is not treated as a clean repository.
C35_ProceedsOnlyWhenObservedClean ==
    GuardLetProceed => (gitDirOk /\ git.files = {})

\* `git rev-parse --git-dir` failed and the guard has returned to its caller
C35_Witness ==
    /\ pc = "guard_done" /\ Running
    /\ log[1].op = "rev-parse-git-dir" /\ ~log[1].ok

----------------------------------------------------------------------------
(* Properties of commit --group *)

\* the validation step
ValidateStep == pc = "gc_validate" /\ pc' # pc

\* C17: after the validation of the AI's groups against changedFiles every
\* remaining group is non-empty and holds only changed files, and the
\* remaining groups are, in order, the proposed groups that have a changed
\* file, each with its message and with its changed files in their order.
C17_ValidGroupsAreStrippedProposals ==
    [][ValidateStep =>
        LET raw     == L.groups
            changed == L.changedFiles
            valid   == L'.validGroups
            keep(j) == \E k \in 1..Len(raw[j].files) : raw[j].files[k] \in changed
        IN  /\ \A i \in 1..Len(valid) :
                  Len(valid[i].files) > 0 /\ Paths(valid[i].files) \subseteq changed
            /\ \E f \in [1..Len(valid) -> 1..Len(raw)] :
                  /\ \A i \in 1..Len(valid), k \in 1..Len(valid) : i < k => f[i] < f[k]
                  /\ \A j \in 1..Len(raw) : keep(j) <=> \E i \in 1..Len(valid) : f[i] = j
                  /\ \A i \in 1..Len(valid) :
                        /\ valid[i].message = raw[f[i]].message
                        /\ valid[i].files =
                               SelectSeq(raw[f[i]].files, LAMBDA x : x \in changed)]_vars

\* of two proposed groups the first held only the made-up path and was
\* dropped; the second is presented with its message
C17_Witness ==
    /\ pc = "gc_summary" /\ L.regens = 0
    /\ Len(L.groups) = 2 /\ L.groups[1].files = <<>>
    /\ L.validGroups = <<CommitGroup(<<"a">>, "m2")>>

\* C18: if the validation leaves no group, group commit ends as a hard
\* failure: nothing is staged, no commit is created and no grouping is made
\* up in place of the AI's.
C18_NoValidGroupsIsFatal ==
    (cmd = "commit" /\ pc # "gc_validate" /\ L.groups # <<>>
        /\ removeEmptyGroups(L.groups) = <<>>) =>
        /\ pc = "exit" /\ exitCode = 1
        /\ L.validGroups = <<>>
        /\ git.staged = L.stagedAtStart /\ git.made = <<>>
        /\ \A i \in 1..Len(log) : log[i].op \notin {"add", "commit"}

C18_Witness ==
    /\ cmd = "commit" /\ pc = "exit" /\ "no-valid-groups" \in out
    /\ git.changed = {"a", "b"}
    /\ Len(L.groups) = 2

\* the groups the validation let through are presented
GroupsValidated == cmd = "commit" /\ pc = "gc_summary"

\* C19: for every grouping that passes the validation the union of the
\* groups' files is exactly the set of changed files, and each changed file
\* is in exactly one group.
C19_ValidGroupingPartitionsChanges ==
    GroupsValidated =>
        /\ UNION {Paths(L.validGroups[i].files) : i \in 1..Len(L.validGroups)}
               = L.changedFiles
        /\ \A f \in L.changedFiles :
              Cardinality({i \in 1..Len(L.validGroups) :
                              f \in Paths(L.validGroups[i].files)}) = 1

\* a grouping that does cover the changed files, one group each
C19_Witness ==
    /\ GroupsValidated
    /\ L.changedFiles = {"a", "b"}
    /\ Len(L.validGroups) = 2
    /\ L.validGroups[1].files = <<"a">> /\ L.validGroups[2].files = <<"b">>

\* 'Regenerate all messages' has been answered
RegenerateAllStep == pc = "gc_summary" /\ pc' = "gc_summary" /\ L'.regens = L.regens + 1

\* C20: whatever the AI answers (nothing, no JSON, another number of groups,
\* other file lists), regenerating all messages gives the same number of
\* groups in the same order with each group's files unchanged.
C20_RegenerateKeepsGroups ==
    [][RegenerateAllStep =>
        /\ Len(L'.validGroups) = Len(L.validGroups)
        /\ \A i \in 1..Len(L.validGroups) :
              L'.validGroups[i].files = L.validGroups[i].files]_vars

\* the AI answered with other file lists; the second group took the new
\* message and both kept their files
C20_Witness ==
    /\ pc = "gc_summary" /\ L.regens = 1
    /\ Len(L.validGroups) = 2
    /\ L.validGroups[1].message = "m1" /\ L.validGroups[2].message = "m3"
    /\ L.validGroups[1].files = <<"a">> /\ L.validGroups[2].files = <<"b">>

----------------------------------------------------------------------------
(* Properties of the WorkflowResolver *)

\* branch.startsWith("<first>/")
StartsWithSegment(branch, first) == Len(branch) > 1 /\ branch[1] = first

\* C21: for every config and branch name, isBranchProtected is true iff the
\* name equals mainBranch, or the workflow has a dev branch and the name equals
\* devBranch, or the workflow is git-flow and the name starts with release/ or
\* hotfix/.
C21_ProtectedIffExactOrPrefix ==
    pc \in {"wf_base", "wf_sync", "wf_done", "wf_base_checked"} =>
        (L.isProtected <=>
            \/ L.branch = config.mainBranch
            \/ (config.workflow \in {"clean-flow", "git-flow"}
                  /\ L.branch = config.devBranch)
            \/ (config.workflow = "git-flow"
                  /\ (StartsWithSegment(L.branch, "release")
                        \/ StartsWithSegment(L.branch, "hotfix"))))

\* hotfix/urgent was found protected under git-flow
C21_Witness ==
    /\ pc = "wf_base" /\ config.workflow = "git-flow"
    /\ L.branch = <<"hotfix", "urgent">> /\ L.isProtected

\* C22 as stated: getBaseBranch returns devBranch when the workflow is
\* clean-flow or git-flow and mainBranch when the workflow is github-flow.
C22_BaseIsDevOrMain ==
    pc \in {"wf_sync", "wf_done", "wf_base_checked"} =>
        L.baseResult = IF config.workflow = "github-flow" THEN config.mainBranch
                 ELSE config.devBranch

\* C22: getBaseBranch returns mainBranch when the workflow is github-flow;
\* when it is clean-flow or git-flow it returns devBranch if the config sets
\* one, and "dev" if it does not.
C22_BaseIsDevOrDefaultOrMain ==
    pc \in {"wf_sync", "wf_done", "wf_base_checked"} =>
        L.baseResult = IF config.workflow = "github-flow" THEN config.mainBranch
                 ELSE IF config.devBranch = None THEN <<"dev">>
                 ELSE config.devBranch

\* a clean-flow config without devBranch got "dev"
C22_Witness ==
    /\ pc = "wf_sync" /\ config.workflow = "clean-flow"
    /\ config.devBranch = None /\ L.baseResult = <<"dev">>

\* C23: getSyncSource returns remote = upstream if role is contributor and
\* origin otherwise, ref = "<remote>/<what getBaseBranch returned>", and
\* strategy = pull.
C23_SyncSourceFollowsRoleAndBase ==
    pc \in {"wf_done", "wf_base_checked"} =>
        /\ L.source.remote = IF config.role = "contributor" THEN config.upstream
                             ELSE config.origin
        /\ L.source.ref = <<L.source.remote>> \o L.baseResult
        /\ L.source.strategy = "pull"

\* a git-flow contributor with devBranch develop syncs from upstream/develop
C23_Witness ==
    /\ pc = "wf_done" /\ config.workflow = "git-flow" /\ config.role = "contributor"
    /\ config.devBranch = Develop
    /\ L.source = [remote |-> "upstream", ref |-> <<"upstream", "develop">>,
                   strategy |-> "pull"]

----------------------------------------------------------------------------
(* Properties of the PR-state tool *)

ToolAbsent == gh \in {"missing", "unauth"}

\* C28: if the PR-state tool is not installed or not authenticated, no branch
\* is treated as PR-merged and no error is raised: clean derives its candidates
\* from the merged and gone signals alone, and update and submit proceed as for
\* a non-stale branch.
C28_NoToolNoMergedPR ==
    ToolAbsent =>
        /\ pc # "stale_inspect"
        /\ (cmd = "clean" /\ pc = "c_merged") =>
              /\ \A i \in 1..Len(L.mergedCandidates) :
                    Includes(getMergedBranches(git, baseBranch), L.mergedCandidates[i])
              /\ \A i \in 1..Len(L.goneCandidates) :
                    Includes(getGoneBranches(git), L.goneCandidates[i])

\* the pull request of the checked-out branch is merged, the tool is absent,
\* and update went on to its fetch
C28_Witness ==
    /\ ToolAbsent /\ cmd = "update" /\ pc = "u_fetch"
    /\ L.currentBranch \in mergedPRs

----------------------------------------------------------------------------
(* Properties of sync *)

\* the commit carries the merge commit a pull without --ff-only makes
HasMergeCommit(c) == \E i \in 1..Len(c) : c[i] = 99

LastOp == log[Len(log)]

\* the pull of the base branch, in a run where "Pull anyway" was not chosen:
\* it is fast-forward only, and if it fails the command exits with an error
\* and the base branch is where it was
FastForwardPullStep ==
    (cmd = "sync" /\ pc = "s_pull" /\ L.action # "PULL_ANYWAY" /\ log' # log) =>
        /\ log'[Len(log')].op = "pull-ff-only"
        /\ ~log'[Len(log')].ok =>
              /\ exitCode' = 1
              /\ git'.branches[baseBranch] = git.branches[baseBranch]

\* C24: sync pulls the base branch with fast-forward-only unless the user
\* selected "Pull anyway"; in every other run no merge commit is created on the
\* base branch, and a pull that cannot fast-forward ends the command with an
\* error and leaves the base branch where it was.
C24_FastForwardOnlyUnlessChosen ==
    /\ []((cmd = "sync" /\ L.action # "PULL_ANYWAY")
            => ~HasMergeCommit(git.branches[baseBranch]))
    /\ [][FastForwardPullStep]_vars

\* the base branch has a local commit and the remote another one; sync was
\* started on a feature branch, so nothing was asked, and the pull failed
C24_Witness ==
    /\ cmd = "sync" /\ exitCode = 1 /\ "pull-failed" \in out
    /\ L.action = "" /\ Len(log) > 0 /\ LastOp.op = "pull-ff-only" /\ ~LastOp.ok
    /\ git.branches[baseBranch] = <<0, 31>>
    /\ server[syncSource.ref] = <<0, 1>>

\* C33: for every config accepted by the resolver, including a clean-flow or
\* git-flow config whose devBranch is unset, the branch returned by
\* getBaseBranch is classified as protected by isBranchProtected and is a
\* member of getProtectedBranches.
C33_BaseBranchIsProtected ==
    pc = "wf_base_checked" => (L.baseProtected /\ L.baseListed)

\* a git-flow config with devBranch develop: develop is the base and protected
C33_Witness ==
    /\ pc = "wf_base_checked" /\ config.workflow = "git-flow"
    /\ config.devBranch = Develop /\ L.baseResult = Develop
    /\ L.baseProtected /\ L.baseListed

----------------------------------------------------------------------------
(* Properties of getDivergence *)

\* the commits reachable from a commit: the commit and its ancestors
Ancestors(c) == {SubSeq(c, 1, k) : k \in 1..Len(c)}

DivergenceDone == pc = "gd_done"

\* the rev-list query exits non-zero: one of the two names is no commit
QueryFails == Resolve(git, L.branch) = None \/ Resolve(git, L.base) = None

\* C25: getDivergence returns {ahead: 0, behind: 0} whenever the underlying
\* rev-list query exits non-zero, and raises no error.
C25_FailedQueryGivesZero ==
    (DivergenceDone /\ QueryFails) =>
        (L.div = [ahead |-> 0, behind |-> 0] /\ exitCode = -1)

\* the base resolves to commits the branch name would lack, and the branch
\* name is no ref
C25_Witness ==
    /\ DivergenceDone /\ Resolve(git, L.branch) = None
    /\ Len(Resolve(git, L.base)) > 1
    /\ L.div = [ahead |-> 0, behind |-> 0]

\* C26: when the query succeeds, getDivergence(branch, base) reports ahead =
\* number of commits reachable from branch but not from base and behind =
\* number reachable from base but not from branch; a ref compared with itself
\* yields {ahead: 0, behind: 0}.
C26_DivergenceCountsBothSides ==
    (DivergenceDone /\ ~QueryFails) =>
        /\ L.div.ahead = Cardinality(Ancestors(Resolve(git, L.branch))
                                        \ Ancestors(Resolve(git, L.base)))
        /\ L.div.behind = Cardinality(Ancestors(Resolve(git, L.base))
                                         \ Ancestors(Resolve(git, L.branch)))
        /\ (L.branch = L.base => L.div = [ahead |-> 0, behind |-> 0])

\* two commits on the branch side against one on the base side
C26_Witness ==
    /\ DivergenceDone /\ ~QueryFails
    /\ L.div = [ahead |-> 2, behind |-> 1]

\* the "Move my commits to a new feature branch, then sync" flow has completed
MoveFlowDone ==
    cmd = "sync" /\ L.action = "MOVE_BRANCH" /\ pc = "done"

\* C29: after sync's "Move my commits to a new feature branch, then sync" flow
\* completes, every commit the local base branch had ahead of the sync ref is
\* reachable from the new feature branch, and the local base branch equals the
\* sync ref, whichever protected branch was checked out when sync started.
C29_MoveKeepsCommitsAndSyncsBase ==
    MoveFlowDone =>
        /\ Reachable(L.movedFrom, git.branches[L.newBranchName])
        /\ git.branches[baseBranch] = Resolve(git, syncSource.ref)

\* the flow was started on the base branch itself: its local commit is on the
\* new branch and the base is at the sync ref
C29_Witness ==
    /\ MoveFlowDone /\ L.currentBranch = baseBranch
    /\ L.movedFrom = <<0, 31>>
    /\ git.branches[L.newBranchName] = <<0, 31>>
    /\ git.branches[baseBranch] = Resolve(git, syncSource.ref)

----------------------------------------------------------------------------
(* Properties of the local base branch in start and update *)

\* commit c is on no local branch of repository g
OnNoBranch(g, c) == \A b \in LocalNames : ~Reachable(c, g.branches[b])

\* a step of start or update takes the base branch off commits that the sync
\* ref does not contain and that no other branch holds, and the user had not
\* confirmed discarding them
BaseMovedOffLocalCommits ==
    /\ cmd \in {"start", "update"}
    /\ git.branches[baseBranch] # None
    /\ git'.branches[baseBranch] # git.branches[baseBranch]
    /\ ~Reachable(git.branches[baseBranch], Resolve(git, syncSource.ref))
    /\ OnNoBranch(git', git.branches[baseBranch])
    /\ L.action # "DISCARD_CONFIRMED"

\* C30: neither start nor update ever moves the local base branch ref off
\* commits that are not contained in the sync ref unless the user explicitly
\* confirmed discarding them, whichever branch is checked out at the time.
C30_BaseKeepsLocalCommits == [][~BaseMovedOffLocalCommits]_vars

\* start on the base branch with a local commit: the user confirmed, and the
\* base was reset to the sync ref
C30_Witness ==
    /\ cmd = "start" /\ L.action = "DISCARD_CONFIRMED" /\ L.currentBranch = baseBranch
    /\ Len(log) > 0 /\ LastOp.op = "reset-hard" /\ LastOp.ok
    /\ git.branches[baseBranch] = Resolve(git, syncSource.ref)
    /\ OnNoBranch(git, <<0, 31>>)

----------------------------------------------------------------------------
(* Properties of the commits of commit --group *)

\* the commit of the group at L.idx has just been created
GroupCommitStep ==
    /\ cmd = "commit" /\ pc = "gc_commit_wait"
    /\ Len(git'.made) = Len(git.made) + 1

\* C32: in group-commit mode every commit that is created contains exactly the
\* files of its own group: files that were already staged when the command
\* started, and files of a group whose staging or commit failed, are never
\* included in another group's commit.  Checked on each commit: it contains no
\* file from outside its own group.
C32_CommitHoldsOwnGroupOnly ==
    [][GroupCommitStep =>
          git'.made[Len(git'.made)].files \subseteq Paths(L.validGroups[L.idx].files)]_vars

\* b was staged when the command started, and the first commit is that of a
\* group which b belongs to
C32_Witness ==
    /\ cmd = "commit" /\ L.stagedAtStart = {"b"}
    /\ Len(git.made) = 1 /\ L.idx = 2
    /\ "b" \in Paths(L.validGroups[1].files)
    /\ git.made[1].files \subseteq Paths(L.validGroups[1].files)

----------------------------------------------------------------------------
(* Properties of start *)

\* start found no sync ref after its fetch and has ended
StartEndedWithoutSyncRef ==
    /\ cmd = "start" /\ exitCode # -1
    /\ "remote-ref-not-found-using-local-base" \in out

\* C31: in start, if the remote sync ref is not found after fetching, the new
\* branch is still created, from the local base branch.
C31_BranchFromLocalBaseWithoutSyncRef ==
    StartEndedWithoutSyncRef =>
        /\ git.branches[L.newBranchName] # None
        /\ git.branches[L.newBranchName] = git.branches[baseBranch]

\* the local base branch exists, the warning was given, and start ended
\* after its attempt to move the base branch
C31_Witness ==
    /\ StartEndedWithoutSyncRef
    /\ git.branches[baseBranch] # None
    /\ Len(log) > 0 /\ LastOp.op \in {"branch-f", "reset-hard"}

----------------------------------------------------------------------------
(* Properties of the Save path (update, submit, clean) *)

\* the log entry i is a rename that git refused
FailedRenameAt(i) == log[i].op = "rename" /\ ~log[i].ok

\* the git commands the Save path issues after its rename
SaveLaterOps == {"unset-upstream", "rebase", "rebase-onto", "checkout",
                 "reset-hard", "branch-f"}

\* after a failed rename no later Save step was issued, the branch was not
\* deleted, and it still exists under its old name as the current branch
NothingAfterFailedRename ==
    \A i \in 1..Len(log) :
        FailedRenameAt(i) =>
            /\ \A j \in (i + 1)..Len(log) :
                  /\ log[j].op \notin SaveLaterOps
                  /\ log[j].op \in {"branch-d", "branch-D"} => log[j].a # log[i].a
            /\ git.branches[log[i].a] # None
            /\ getCurrentBranch(git) = log[i].a

\* the step that issued the refused rename
FailedRenameStep ==
    /\ Len(log') = Len(log) + 1
    /\ log'[Len(log')].op = "rename" /\ ~log'[Len(log')].ok

\* C34: if the rename at the start of the Save path fails, no later step of
\* that path runs (no upstream change, rebase, checkout, reset or deletion)
\* and the branch keeps its original name and commits.
C34_FailedRenameStopsSave ==
    /\ []NothingAfterFailedRename
    /\ [][FailedRenameStep => git' = git]_vars

\* the command has ended after a rename that git refused
C34_Witness ==
    /\ exitCode # -1
    /\ \E i \in 1..Len(log) : FailedRenameAt(i)

----------------------------------------------------------------------------
(* Properties of update on a protected branch *)

\* the working tree and the index
WorkTree(g) == <<g.dirty, g.changed, g.staged>>

\* the step that runs `git checkout -b <new branch>`
ProtectedCreateStep == cmd = "update" /\ pc = "u_prot_create" /\ pc' # pc

\* the step that resets the protected branch to its remote ref
ProtectedResetStep == cmd = "update" /\ pc = "u_prot_reset" /\ pc' # pc

\* a failed creation leaves the repository as it was and ends the command;
\* a successful one puts the commits of the protected branch on the new
\* branch, which becomes current, and keeps the working tree and the
\* protected branch
CreateKeepsWork ==
    ProtectedCreateStep =>
        IF log'[Len(log')].ok
        THEN /\ git'.branches[L.newBranchName] = git.branches[L.currentBranch]
             /\ git'.branches[L.currentBranch] = git.branches[L.currentBranch]
             /\ getCurrentBranch(git') = L.newBranchName
             /\ WorkTree(git') = WorkTree(git)
        ELSE /\ git' = git
             /\ exitCode' = 1

\* the reset comes right after the successful creation and touches neither
\* the new branch nor the working tree
ResetAfterCreate ==
    ProtectedResetStep =>
        /\ log[Len(log)].op = "checkout-b" /\ log[Len(log)].ok
        /\ log[Len(log)].a = L.newBranchName
        /\ log'[Len(log')].a = L.currentBranch
        /\ git'.branches[L.newBranchName] = git.branches[L.newBranchName]
        /\ getCurrentBranch(git') = L.newBranchName
        /\ WorkTree(git') = WorkTree(git)

\* C36: when update moves local work off a protected branch, the new branch
\* is created from the current HEAD before the protected branch is reset to
\* its remote ref; a failed creation leaves the protected branch and the
\* working tree unchanged, and after success the new branch holds every
\* commit and working-tree change that was on the protected branch.
C36_MoveOffProtectedKeepsWork ==
    [][CreateKeepsWork /\ ResetAfterCreate]_vars

\* update has moved a protected branch with a local commit: the new branch
\* holds the commit and the protected branch is back at its remote ref
C36_Witness ==
    /\ cmd = "update" /\ "moved-to-new-branch" \in out
    /\ L.newBranchName # None /\ git.branches[L.newBranchName] # None
    /\ git.branches[L.currentBranch] = Resolve(git, RemoteRef(config.origin, L.currentBranch))
    /\ git.branches[L.newBranchName] # git.branches[L.currentBranch]

====
